---- MODULE Spec2Model ----
(***************************************************************************)
(* The FlowMetrics semantic graph: the builder of graph_builder_clean.py   *)
(* (nodes, pairwise similarity, typed weighted edges) and the two query    *)
(* clients over the persisted graph (neo4j_client.py, simple_graph_client  *)
(* .py).                                                                   *)
(*                                                                         *)
(* Real numbers are exact rationals, held as integers in units of 1/Unit.  *)
(* Strings that are searched are sequences of one-character strings.       *)
(***************************************************************************)
EXTENDS Integers, Sequences, FiniteSets, TLC

VARIABLES
    nodes,      \* builder: self.nodes, in insertion order (a dict keyed by id)
    edges,      \* builder: self.edges
    nxNodes,    \* builder: self.nx_graph, its nodes (id -> attributes)
    nxEdges,    \* builder: self.nx_graph, its edges (unordered pair -> attributes)
    last,       \* builder: the last method called, its arguments, len(self.edges)
                \* as the call began, and the edge builds made so far
    arg1,       \* _analyze_relationship: node1
    arg2,       \* _analyze_relationship: node2
    argSim,     \* _analyze_relationship: similarity
    ret,        \* _analyze_relationship: <<the returned triple>>, <<>> before the call
    store,      \* query clients: the stored graph both backends were loaded with
    qcall,      \* query clients: the last query (backend, operation, arguments)
    qres,       \* query clients: what the last query returned
    neo4j_client,        \* graph_api: the global client, NoValue until startup
    backend_ok,          \* graph_api: whether the database answers queries
    active_connections,  \* graph_api: manager.active_connections
    failing,             \* graph_api: the websockets whose send_json raises
    delivered,           \* graph_api: the websockets the last broadcast reached
    response,            \* graph_api: how the last handler ended
    handlers,            \* graph_api: where each websocket_endpoint handler stands
    bcast,               \* graph_api: the broadcast whose sends are awaited
    data_list,           \* extractor: the source objects handed to extract_data_points
    extracted,           \* extractor: <<how the call ended>>, <<>> before the call
    run,                 \* generate_graph.main: how the build run ended
    files,               \* save_graph: the four artifacts on disk
    now,                 \* save_graph: what datetime.now() returns
    saved,               \* save_graph: how the last call ended
    edges_data,          \* visualizer: the edge records it loaded and holds
    graph_file,          \* loaders: the persisted graph, nodes file and edges file
    databases,           \* loaders: the rows of the Neo4j and of the SQLite database
    loads                \* loaders: the load runs made on each database

vars == <<nodes, edges, nxNodes, nxEdges, last, arg1, arg2, argSim, ret, store, qcall, qres,
          neo4j_client, backend_ok, active_connections, failing, delivered, response,
          handlers, bcast,
          data_list, extracted, run, files, now, saved, edges_data,
          graph_file, databases, loads>>
builderVars == <<nodes, edges, nxNodes, nxEdges, last>>
analyzeVars == <<arg1, arg2, argSim, ret>>
queryVars == <<store, qcall, qres>>
apiVars == <<neo4j_client, backend_ok, active_connections, failing, delivered, response,
             handlers, bcast>>
extractVars == <<data_list, extracted, run>>
fileVars == <<files, now, saved, edges_data>>
loadVars == <<graph_file, databases, loads>>

NoValue == "None"

(***************************************************************************)
(* Bounds                                                                  *)
(***************************************************************************)
MaxTags == 2
MaxNodes == 3
MaxEdgeBuilds == 2
MaxSockets == 2
MaxSources == 2
MaxClock == 1

(***************************************************************************)
(* Numbers                                                                 *)
(***************************************************************************)
RECURSIVE Factorial(_)
Factorial(n) == IF n <= 1 THEN 1 ELSE n * Factorial(n - 1)

\* Every product and quotient the code computes on the values below is a whole
\* number of units: thousandths for s * 1.3, halves of 1/len for the tag ratio.
Unit == 1000 * 2 * Factorial(MaxTags)

\* The real number n/d.
R(n, d) == (n * Unit) \div d

One == R(1, 1)

Min(a, b) == IF a <= b THEN a ELSE b
Max(a, b) == IF a >= b THEN a ELSE b

Range(s) == {s[i] : i \in DOMAIN s}

SeqsUpTo(S, n) == UNION {[1..k -> S] : k \in 0..n}

(***************************************************************************)
(* Nodes                                                                   *)
(***************************************************************************)
NodeTypes == {"metric", "insight", "event", "trend"}

Tags == {"growth", "performance", "api"}

TagLists == SeqsUpTo(Tags, MaxTags)

\* Embeddings of one length and one norm (10), so that the cosine of two of
\* them is their dot product over 100.
Embeddings ==
    { <<8, 6, 0, 0>>, <<-3, 9, -1, -3>>, <<-2, 8, -4, -4>>, <<8, -6, 0, 0>>, <<0, 0, 10, 0>> }

RECURSIVE Dot(_, _)
Dot(u, v) == IF u = <<>> THEN 0 ELSE Head(u) * Head(v) + Dot(Tail(u), Tail(v))

NormSquared(u) == Dot(u, u)

\* cosine_similarity([e1], [e2])[0][0] = e1.e2 / (|e1| |e2|); every embedding
\* of the model has |e|^2 = NormSquared(e) = 100, so |e1| |e2| = NormSquared(e1).
calculate_semantic_similarity(embedding1, embedding2) ==
    R(Dot(embedding1, embedding2), NormSquared(embedding1))

(***************************************************************************)
(* calculate_audience_relevance                                            *)
(***************************************************************************)
Audiences == {"investors", "customers", "internal_team", "developer_community"}

\* self.audiences[audience]['keywords']
AudienceKeywords(audience) ==
    CASE audience = "investors" ->
            {"revenue", "growth", "arr", "mrr", "churn", "funding", "runway"}
      [] audience = "customers" ->
            {"feature", "update", "integration", "dashboard", "support"}
      [] audience = "internal_team" ->
            {"performance", "velocity", "sprint", "kpi", "productivity"}
      [] audience = "developer_community" ->
            {"api", "integration", "documentation", "technical"}

\* self.audiences[audience]['interests']
AudienceInterests(audience) ==
    CASE audience = "investors" ->
            {"financial_metrics", "growth_trajectory", "market_position"}
      [] audience = "customers" ->
            {"product_updates", "feature_releases", "user_experience"}
      [] audience = "internal_team" ->
            {"team_performance", "operational_metrics", "strategic_initiatives"}
      [] audience = "developer_community" ->
            {"technical_updates", "integration_capabilities"}

\* the words of a content, lower-cased
ContentWords(content) ==
    CASE content = "c1" -> {"revenue", "mrr", "churn"}
      [] content = "c2" -> {"feature", "update", "dashboard"}
      [] content = "c3" -> {"arr", "funding", "runway"}
      [] content = "c4" -> {"api", "integration"}
      [] content = "c5" -> {"performance"}
      [] content = "c6" -> {"revenue", "growth", "arr", "mrr", "churn", "funding", "runway"}
      [] content = "c7" -> {}

\* min(tag_relevance, 1.0) * 0.3 in thousandths, tag_relevance being 0.2 for
\* each tag that holds an interest of the audience
\* round(keyword_score * 0.7 + min(tag_relevance, 1.0) * 0.3, 3): in thousandths
\* 700 * matches / len(keywords) + 60 * min(matching tags, 5), a whole number
\* for keyword lists of 4, 5 and 7
TagScoreMutant(matching_tags) == 60 * matching_tags
TagScore(matching_tags) == 60 * Min(matching_tags, 5)

calculate_audience_relevance(content, tags) ==
    [audience \in Audiences |->
        LET text == ContentWords(content) \cup Range(tags)
            keyword_matches == Cardinality(AudienceKeywords(audience) \cap text)
            matching_tags == Cardinality({i \in DOMAIN tags :
                                            tags[i] \in AudienceInterests(audience)})
        IN  R((700 * keyword_matches) \div Cardinality(AudienceKeywords(audience))
                + TagScore(matching_tags), 1000)]

(***************************************************************************)
(* _analyze_relationship                                                   *)
(***************************************************************************)
CausalTags == {"growth", "improvement", "performance"}

CausalityMultiplier == R(13, 10)
InfluenceMultiplierMutant == R(9, 10)
InfluenceMultiplier == R(12, 10)

RelevanceConfidence == R(7, 10)
CausalityConfidence == R(8, 10)
InfluenceConfidence == R(75, 100)

\* x * y for two reals
Times(x, y) == (x * y) \div Unit

shared_tags(node1, node2) == Range(node1.tags) \cap Range(node2.tags)

IsCausalPair(node1, node2) ==
    \/ node1.type = "insight" /\ node2.type = "metric"
    \/ node2.type = "insight" /\ node1.type = "metric"

IsInfluencePairMutant(node1, node2) ==
    node1.type = "event" \/ node2.type = "event"

IsInfluencePair(node1, node2) ==
    \/ node1.type = "event" /\ node2.type \in {"metric", "insight"}
    \/ node2.type = "event" /\ node1.type \in {"metric", "insight"}

\* the first if-block: the type test and, inside it, the shared-tag test
CausalBlockFires(node1, node2) ==
    IsCausalPair(node1, node2) /\ CausalTags \cap shared_tags(node1, node2) # {}

\* final_weight = min(base_weight * (1 + tag_overlap * 0.5), 1.0), with
\* tag_overlap = len(shared_tags) / max(len(tags1), len(tags2), 1)
BoostMutant(base_weight, n_shared, max_len) ==
    (base_weight * (2 * max_len + n_shared)) \div (2 * max_len)

Boost(base_weight, n_shared, max_len) ==
    Min((base_weight * (2 * max_len + n_shared)) \div (2 * max_len), One)

MaxTagCountMutant(node1, node2) ==
    Max(Max(Cardinality(Range(node1.tags)), Cardinality(Range(node2.tags))), 1)

\* max(len(node1.tags), len(node2.tags), 1)
MaxTagCount(node1, node2) == Max(Max(Len(node1.tags), Len(node2.tags)), 1)

analyze_relationship(node1, node2, similarity) ==
    LET n_shared == Cardinality(shared_tags(node1, node2))
        max_len  == MaxTagCount(node1, node2)
        \* the defaults
        r0 == [relationship_type |-> "relevance", base_weight |-> similarity,
               confidence |-> RelevanceConfidence]
        \* after the first if-block
        r1 == IF CausalBlockFires(node1, node2)
              THEN [relationship_type |-> "causality",
                    base_weight |-> Min(Times(r0.base_weight, CausalityMultiplier), One),
                    confidence |-> CausalityConfidence]
              ELSE r0
        \* after the second if-block
        r2 == IF IsInfluencePair(node1, node2)
              THEN [relationship_type |-> "influence",
                    base_weight |-> Min(Times(r1.base_weight, InfluenceMultiplier), One),
                    confidence |-> InfluenceConfidence]
              ELSE r1
    IN  [relationship_type |-> r2.relationship_type,
         weight |-> Boost(r2.base_weight, n_shared, max_len),
         confidence |-> r2.confidence]

(***************************************************************************)
(* The builder: create_graph_nodes, create_semantic_edges                  *)
(***************************************************************************)
Contents == {"c1", "c2", "c3", "c4", "c5"}

\* self.sentence_model.encode: a fixed function from content to embedding
encode(content) ==
    CASE content = "c1" -> <<8, 6, 0, 0>>
      [] content = "c2" -> <<-3, 9, -1, -3>>
      [] content = "c3" -> <<-2, 8, -4, -4>>
      [] content = "c4" -> <<8, -6, 0, 0>>
      [] content = "c5" -> <<0, 0, 10, 0>>

\* The data points handed to create_graph_nodes.
DataPoints ==
    { [type |-> "metric",  content |-> "c1", tags |-> <<"growth">>,
       source |-> "stripe", confidence |-> R(96, 100)],
      [type |-> "insight", content |-> "c3", tags |-> <<"growth", "api">>,
       source |-> "mixpanel", confidence |-> R(9, 10)],
      [type |-> "event",   content |-> "c2", tags |-> <<>>,
       source |-> "mixpanel", confidence |-> R(8, 10)],
      [type |-> "metric",  content |-> "c4", tags |-> <<"api", "api">>,
       source |-> "github", confidence |-> R(88, 100)],
      [type |-> "trend",   content |-> "c5", tags |-> <<"performance">>,
       source |-> "hr", confidence |-> R(92, 100)],
      [type |-> "metric",  content |-> "c3", tags |-> <<>>,
       source |-> "stripe", confidence |-> R(96, 100)] }

\* similarity_threshold: the default 0.3, generate_graph's 0.25, zero, negative
DefaultSimilarityThreshold == R(3, 10)
Thresholds == {R(-8, 10), 0, R(25, 100), DefaultSimilarityThreshold}

\* str(uuid.uuid4()): an identifier no node has yet; the k-th node made is k
uuid4Mutant(n_existing) == (n_existing % 2) + 1
uuid4(n_existing) == n_existing + 1

GraphNode(id, point) ==
    [id |-> id, type |-> point.type, content |-> point.content,
     confidence |-> point.confidence, source |-> point.source,
     tags |-> point.tags,
     audience_relevance |-> calculate_audience_relevance(point.content, point.tags),
     embedding |-> encode(point.content)]

NxNodeAttributes(node) ==
    [type |-> node.type, content |-> node.content,
     tags |-> SubSeq(node.tags, 1, Min(3, Len(node.tags)))]

\* nx_graph.add_node(node_id, **attributes), for each node made in turn
RECURSIVE AddNxNodes(_, _)
AddNxNodes(graph_nodes, made) ==
    IF made = <<>> THEN graph_nodes
    ELSE LET node == Head(made)
         IN  AddNxNodes([id \in DOMAIN graph_nodes \cup {node.id} |->
                            IF id = node.id THEN NxNodeAttributes(node) ELSE graph_nodes[id]],
                        Tail(made))

\* the nodes made from the data points, in order
MadeNodes(n_existing, data_points) ==
    [i \in DOMAIN data_points |-> GraphNode(uuid4(n_existing + i - 1), data_points[i])]

create_graph_nodes(data_points) ==
    /\ data_points # <<>>
    /\ Len(nodes) + Len(data_points) <= MaxNodes
    /\ LET made == MadeNodes(Len(nodes), data_points)
       IN  /\ nodes' = nodes \o made
           /\ nxNodes' = AddNxNodes(nxNodes, made)
    /\ last' = [op |-> "create_graph_nodes", args |-> <<>>,
                edges_before |-> Len(edges), builds |-> last.builds,
                points_in |-> last.points_in + Len(data_points)]
    /\ UNCHANGED <<edges, nxEdges>>

\* for j, node2 in enumerate(node_list[i+1:], i+1)
InnerFirstMutant(i) == i

InnerFirst(i) == i + 1

RECURSIVE InnerLoop(_, _, _)
InnerLoop(i, j, n) ==
    IF j > n THEN <<>> ELSE << <<i, j>> >> \o InnerLoop(i, j + 1, n)

\* for i, node1 in enumerate(node_list): the index pairs in the order visited
RECURSIVE OuterLoop(_, _)
OuterLoop(i, n) ==
    IF i > n THEN <<>> ELSE InnerLoop(i, InnerFirst(i), n) \o OuterLoop(i + 1, n)

GraphEdge(node1, node2) ==
    LET similarity == calculate_semantic_similarity(node1.embedding, node2.embedding)
        rel == analyze_relationship(node1, node2, similarity)
    IN  [source_id |-> node1.id, target_id |-> node2.id,
         relationship_type |-> rel.relationship_type,
         weight |-> rel.weight,
         confidence |-> rel.confidence,
         semantic_similarity |-> similarity,
         source_types |-> <<node1.type, node2.type>>,
         shared_tags |-> shared_tags(node1, node2)]

EdgeTestMutant(edge, similarity_threshold) ==
    edge.semantic_similarity >= similarity_threshold /\ edge.weight > 0

\* if similarity > similarity_threshold and weight > 0
EdgeTest(edge, similarity_threshold) ==
    edge.semantic_similarity > similarity_threshold /\ edge.weight > 0

\* the edges one call appends, in order
NewEdges(node_list, similarity_threshold) ==
    LET visited == OuterLoop(1, Len(node_list))
        candidates == [k \in DOMAIN visited |->
                          GraphEdge(node_list[visited[k][1]], node_list[visited[k][2]])]
    IN  SelectSeq(candidates, LAMBDA e : EdgeTest(e, similarity_threshold))

NxEdgeAttributes(edge) ==
    [weight |-> edge.weight, relationship |-> edge.relationship_type,
     similarity |-> edge.semantic_similarity]

\* self.edges.append(edge), for each new edge
EdgeListAfter(old_edges, new_edges) == old_edges \o new_edges

\* nx_graph.add_edge(node1.id, node2.id, **attributes), for each new edge in
\* turn: the graph is undirected, and adding a pair again replaces its attributes
RECURSIVE AddNxEdges(_, _)
AddNxEdges(graph_edges, new_edges) ==
    IF new_edges = <<>> THEN graph_edges
    ELSE LET edge == Head(new_edges)
             pair == {edge.source_id, edge.target_id}
         IN  AddNxEdges([p \in DOMAIN graph_edges \cup {pair} |->
                            IF p = pair THEN NxEdgeAttributes(edge) ELSE graph_edges[p]],
                        Tail(new_edges))

create_semantic_edges(similarity_threshold) ==
    /\ last.builds < MaxEdgeBuilds
    /\ LET new_edges == NewEdges(nodes, similarity_threshold)
       IN  /\ edges' = EdgeListAfter(edges, new_edges)
           /\ nxEdges' = AddNxEdges(nxEdges, new_edges)
    \* add_edge would also add an endpoint that is not yet a node of nx_graph;
    \* both endpoints were added by create_graph_nodes
    /\ UNCHANGED <<nodes, nxNodes>>
    /\ last' = [op |-> "create_semantic_edges", args |-> <<similarity_threshold>>,
                edges_before |-> Len(edges), builds |-> last.builds + 1,
                points_in |-> last.points_in]

EmptyFunction == [x \in {} |-> x]

BuilderInit ==
    /\ nodes = <<>>
    /\ edges = <<>>
    /\ nxNodes = EmptyFunction
    /\ nxEdges = EmptyFunction
    /\ last = [op |-> "__init__", args |-> <<>>, edges_before |-> 0, builds |-> 0,
               points_in |-> 0]

AnalyzeIdle ==
    /\ arg1 = NoValue
    /\ arg2 = NoValue
    /\ argSim = 0
    /\ ret = <<>>

QueryIdle ==
    /\ store = [nodes |-> {}, edges |-> {}]
    /\ qcall = [op |-> NoValue]
    /\ qres = [neo4j |-> <<>>, simple |-> <<>>]

\* graph_api as imported: no client, no websocket, no request served
ApiIdle ==
    /\ neo4j_client = NoValue
    /\ backend_ok = TRUE
    /\ active_connections = <<>>
    /\ failing = {}
    /\ delivered = {}
    /\ response = [op |-> "import", status |-> NoValue, body |-> NoValue,
                   backend_called |-> FALSE, broadcast_called |-> FALSE,
                   broadcast_raised |-> FALSE, connections_before |-> <<>>,
                   failing_before |-> {}, backend_ok_before |-> TRUE]
    /\ handlers = [websocket \in 1..MaxSockets |-> "idle"]
    /\ bcast = [state |-> "none"]

\* no extraction under way
ExtractIdle ==
    /\ data_list = <<>>
    /\ extracted = <<>>
    /\ run = "not_run"

\* the artifacts, in the order save_graph writes them
Artifacts == <<"nodes_json", "edges_json", "edgelist", "summary">>

AbsentFile == [written |-> "absent", document |-> <<>>]

\* nothing loaded into either database
LoadIdle ==
    /\ graph_file = [nodes |-> <<>>, edges |-> <<>>]
    /\ databases = [neo4j |-> [constrained |-> FALSE, nodes |-> <<>>, edges |-> <<>>],
                    simple |-> [nodes |-> <<>>, edges |-> <<>>]]
    /\ loads = [neo4j |-> [runs |-> 0, first |-> <<>>],
                simple |-> [runs |-> 0, first |-> <<>>]]

\* no artifact written yet
ArtifactsIdle ==
    /\ files = [k \in DOMAIN Artifacts |-> AbsentFile]
    /\ now = 0
    /\ saved = [called |-> FALSE, failed_at |-> 0, raised |-> FALSE, at |-> 0]
    /\ edges_data = [loaded |-> FALSE, read |-> <<>>, edges |-> <<>>]

FilesIdle == LoadIdle /\ ArtifactsIdle

Init == BuilderInit /\ AnalyzeIdle /\ QueryIdle /\ ApiIdle /\ ExtractIdle /\ FilesIdle

CreateGraphNodes ==
    /\ \E k \in 1..(MaxNodes - Len(nodes)) :
          \E data_points \in [1..k -> DataPoints] : create_graph_nodes(data_points)
    /\ UNCHANGED <<analyzeVars, queryVars, apiVars, extractVars, fileVars, loadVars>>

CreateSemanticEdges ==
    /\ \E similarity_threshold \in Thresholds : create_semantic_edges(similarity_threshold)
    /\ UNCHANGED <<analyzeVars, queryVars, apiVars, extractVars, fileVars, loadVars>>

Next == CreateGraphNodes \/ CreateSemanticEdges

Spec == Init /\ [][Next]_vars

(***************************************************************************)
(* save_graph: the four artifacts                                          *)
(***************************************************************************)
\* open(path, "w") has emptied the file and the write stopped part-way
PartialFile == [written |-> "partial", document |-> <<>>]

CompleteFile(document) == [written |-> "complete", document |-> <<document>>]

\* nodes_data: list(set(...)) keeps the order the process gives the set
NodesDocument(node_list, timestamp) ==
    [metadata |-> [total_nodes |-> Len(node_list),
                   node_types |-> {node_list[i].type : i \in DOMAIN node_list},
                   creation_timestamp |-> timestamp],
     nodes |-> node_list]

EdgesDocument(edge_list, timestamp) ==
    [metadata |-> [total_edges |-> Len(edge_list),
                   relationship_types |->
                       {edge_list[i].relationship_type : i \in DOMAIN edge_list},
                   creation_timestamp |-> timestamp],
     edges |-> edge_list]

\* nx.write_edgelist(self.nx_graph, ...)
EdgeListDocument(graph_edges) == graph_edges

\* counts[key] = counts.get(key, 0) + 1 over the list
CountBy(list, key) ==
    [k \in {list[i][key] : i \in DOMAIN list} |->
        Cardinality({i \in DOMAIN list : list[i][key] = k})]

CoverageThreshold == R(3, 10)

CoversMutant(node, audience) == node.audience_relevance[audience] >= CoverageThreshold

\* n.audience_relevance.get(audience, 0) > 0.3
Covers(node, audience) == node.audience_relevance[audience] > CoverageThreshold

Summary(node_list, edge_list) ==
    [total_nodes |-> Len(node_list),
     total_edges |-> Len(edge_list),
     node_types |-> CountBy(node_list, "type"),
     relationship_types |-> CountBy(edge_list, "relationship_type"),
     audience_coverage |->
         [a \in Audiences |-> Cardinality({i \in DOMAIN node_list : Covers(node_list[i], a)})],
     source_distribution |-> CountBy(node_list, "source")]

\* what save_graph means to write to the artifact
DocumentFor(artifact, node_list, edge_list, graph_edges, timestamp) ==
    CASE artifact = "nodes_json" -> NodesDocument(node_list, timestamp)
      [] artifact = "edges_json" -> EdgesDocument(edge_list, timestamp)
      [] artifact = "edgelist" -> EdgeListDocument(graph_edges)
      [] artifact = "summary" -> Summary(node_list, edge_list)

DocumentOf(artifact) == DocumentFor(artifact, nodes, edges, nxEdges, now)

\* how a write may fail: open() raises and the file is untouched, or open()
\* has emptied the file and the dump stops part-way
FailureModes == {"open", "write"}

\* the files after a call in which the write of artifact failed_at (0: none)
\* fails in the given mode
WrittenFiles(before, node_list, edge_list, graph_edges, timestamp, failed_at, mode) ==
    [k \in DOMAIN Artifacts |->
        IF failed_at = 0 \/ k < failed_at
            THEN CompleteFile(DocumentFor(Artifacts[k], node_list, edge_list, graph_edges,
                                          timestamp))
        ELSE IF k = failed_at /\ mode = "write" THEN PartialFile
        ELSE before[k]]

\* save_graph: failed_at is the artifact (1..4) whose write raises, 0 when none
\* does; the exception leaves save_graph at once
save_graph(failed_at, mode) ==
    /\ files' = WrittenFiles(files, nodes, edges, nxEdges, now, failed_at, mode)
    /\ saved' = [called |-> TRUE, failed_at |-> failed_at, raised |-> failed_at # 0,
                 at |-> now]
    /\ UNCHANGED <<now, edges_data>>

\* datetime.now() of a later call may be later
Tick ==
    /\ now < MaxClock
    /\ now' = now + 1
    /\ UNCHANGED <<files, saved, edges_data>>

\* the data points of the builds that are saved
DataPoint(type, content, tags, source, confidence) ==
    [type |-> type, content |-> content, tags |-> tags, source |-> source,
     confidence |-> confidence]

SavedRuns ==
    { <<>>,
      <<DataPoint("metric", "c1", <<"growth">>, "stripe", R(96, 100))>>,
      <<DataPoint("metric", "c1", <<"growth">>, "stripe", R(96, 100)),
        DataPoint("insight", "c3", <<"growth", "api">>, "mixpanel", R(9, 10)),
        DataPoint("event", "c2", <<>>, "mixpanel", R(8, 10))>>,
      <<DataPoint("metric", "c3", <<>>, "stripe", R(96, 100)),
        DataPoint("metric", "c4", <<"api", "api">>, "github", R(88, 100)),
        DataPoint("insight", "c3", <<"growth", "api">>, "mixpanel", R(9, 10))>> }

\* a builder after create_graph_nodes(data_points) and, when built is not <<>>,
\* create_semantic_edges(built[1])
BuilderAfter(data_points, built) ==
    /\ nodes = MadeNodes(0, data_points)
    /\ nxNodes = AddNxNodes(EmptyFunction, nodes)
    /\ edges = IF built = <<>> THEN <<>> ELSE NewEdges(nodes, built[1])
    /\ nxEdges = AddNxEdges(EmptyFunction, edges)
    /\ last = IF built = <<>>
              THEN [op |-> "create_graph_nodes", args |-> <<>>, edges_before |-> 0,
                    builds |-> 0, points_in |-> Len(data_points)]
              ELSE [op |-> "create_semantic_edges", args |-> built, edges_before |-> 0,
                    builds |-> 1, points_in |-> Len(data_points)]

SaveInit ==
    /\ \E data_points \in SavedRuns, built \in {<<>>, <<R(25, 100)>>, <<R(-8, 10)>>} :
          BuilderAfter(data_points, built)
    /\ FilesIdle
    /\ AnalyzeIdle
    /\ QueryIdle
    /\ ApiIdle
    /\ ExtractIdle

SaveGraph ==
    /\ \E failed_at \in 0..Len(Artifacts), mode \in FailureModes :
          /\ failed_at = 0 => mode = "open"
          /\ save_graph(failed_at, mode)
    /\ UNCHANGED <<builderVars, analyzeVars, queryVars, apiVars, extractVars, loadVars>>

ClockTicks ==
    /\ Tick
    /\ UNCHANGED <<builderVars, analyzeVars, queryVars, apiVars, extractVars, loadVars>>

(***************************************************************************)
(* EnhancedGraphVisualizer: the edges it loads                             *)
(***************************************************************************)
\* load_json(edges_file).get('edges', []): a file that is missing or cannot
\* be parsed loads as {}
LoadedEdges(file) ==
    IF file.written = "complete" THEN file.document[1].edges ELSE <<>>

MeaningfulSimilarity == R(3, 10)

MeaningfulWeight == R(35, 100)

\* enhance_relationship_type: the if/elif chain over shared_tags and source_types
enhance_relationship_type(edge) ==
    IF edge.shared_tags \cap {"growth", "revenue", "users", "recurring"} # {}
        THEN "business_growth"
    ELSE IF edge.shared_tags \cap {"engagement", "behavior", "product", "active"} # {}
        THEN "user_engagement"
    ELSE IF edge.shared_tags \cap {"performance", "team", "velocity"} # {}
        THEN "operational"
    ELSE IF "metric" \in Range(edge.source_types) /\ "insight" \in Range(edge.source_types)
        THEN "metric_to_insight"
    ELSE IF edge.source_types = <<"metric", "metric">>
        THEN "metric_correlation"
    ELSE "contextual_relevance"

\* neither continue fires
IsMeaningful(edge) ==
    ~(edge.semantic_similarity < MeaningfulSimilarity) /\ ~(edge.weight < MeaningfulWeight)

\* filter_meaningful_edges: the records of self.edges_data['edges'] after the
\* loop; edge['relationship_type'] = enhanced_type writes into the loaded record
filter_meaningful_edges(loaded) ==
    [i \in DOMAIN loaded |->
        IF IsMeaningful(loaded[i])
        THEN [loaded[i] EXCEPT !.relationship_type = enhance_relationship_type(loaded[i])]
        ELSE loaded[i]]

\* EnhancedGraphVisualizer(nodes_file, edges_file): load_json, then
\* build_filtered_graph, which calls filter_meaningful_edges
Visualize ==
    /\ ~edges_data.loaded
    /\ saved.called
    /\ LET loaded == LoadedEdges(files[2])
       IN  edges_data' = [loaded |-> TRUE, read |-> loaded,
                          edges |-> filter_meaningful_edges(loaded)]
    /\ UNCHANGED <<files, now, saved>>
    /\ UNCHANGED <<builderVars, analyzeVars, queryVars, apiVars, extractVars, loadVars>>

SaveNext == SaveGraph \/ ClockTicks \/ Visualize

SpecSave == SaveInit /\ [][SaveNext]_vars

(***************************************************************************)
(* _analyze_relationship on its own: the arguments are drawn by the initial *)
(* state and one call is made.                                             *)
(***************************************************************************)
\* similarities of [-1, 1], in hundredths
SimilarityValues == {R(k, 100) : k \in {-100, -64, 0, 28, 30, 32, 94, 100}}

NodeArguments == [type : NodeTypes, tags : TagLists]

AnalyzeInit ==
    /\ arg1 \in NodeArguments
    /\ arg2 \in NodeArguments
    /\ argSim \in SimilarityValues
    /\ ret = <<>>
    /\ BuilderInit
    /\ QueryIdle
    /\ ApiIdle
    /\ ExtractIdle
    /\ FilesIdle

AnalyzeRelationship ==
    /\ ret = <<>>
    /\ ret' = <<analyze_relationship(arg1, arg2, argSim)>>
    /\ UNCHANGED <<arg1, arg2, argSim, builderVars, queryVars, apiVars, extractVars, fileVars, loadVars>>

AnalyzeNext == AnalyzeRelationship

SpecAnalyze == AnalyzeInit /\ [][AnalyzeNext]_vars

(***************************************************************************)
(* calculate_audience_relevance called on its own: any content, any tags   *)
(***************************************************************************)
RelevanceContents == Contents \cup {"c6", "c7"}

RelevanceTags == {"growth", "financial_metrics", "api"}

\* tag lists longer than the five tags the tag score is capped at
LongTagLists ==
    { [i \in 1..6 |-> "financial_metrics"],
      [i \in 1..7 |-> IF i = 4 THEN "api" ELSE "financial_metrics"] }

RelevanceArguments ==
    [content : RelevanceContents,
     tags : SeqsUpTo(RelevanceTags, MaxTags) \cup LongTagLists]

RelevanceInit ==
    /\ arg1 \in RelevanceArguments
    /\ arg2 = NoValue
    /\ argSim = 0
    /\ ret = <<>>
    /\ BuilderInit
    /\ QueryIdle
    /\ ApiIdle
    /\ ExtractIdle
    /\ FilesIdle

CalculateAudienceRelevance ==
    /\ ret = <<>>
    /\ ret' = <<calculate_audience_relevance(arg1.content, arg1.tags)>>
    /\ UNCHANGED <<arg1, arg2, argSim, builderVars, queryVars, apiVars, extractVars, fileVars, loadVars>>

RelevanceNext == CalculateAudienceRelevance

SpecRelevance == RelevanceInit /\ [][RelevanceNext]_vars

(***************************************************************************)
(* The stored graph of the query clients                                   *)
(*                                                                         *)
(* Both clients are loaded from the same nodes and edges files; the rows   *)
(* are held as sets, since neither database promises an order of its own.  *)
(***************************************************************************)
MaxStored == 4

\* json.dumps(node.get('audience_relevance', {})) of the scores given
RelevanceJson(investors, customers) ==
    [kind |-> "object",
     members |-> [a \in Audiences |->
                    CASE a = "investors" -> investors
                      [] a = "customers" -> customers
                      [] OTHER -> 0]]

\* The node rows a nodes file may hold (id, type, content, source, confidence,
\* tags, audience_relevance_json).
StoredNodePool ==
    { [id |-> 1, type |-> "metric", content |-> <<"R", "e", "v">>,
       source |-> <<"m", "r", "r">>, confidence |-> R(9, 10),
       tags |-> << <<"g", "r", "o">> >>,
       audience_relevance_json |-> RelevanceJson(R(35, 100), 0)],
      [id |-> 2, type |-> "insight", content |-> <<"d", "a", "u">>,
       source |-> <<"i", "n", "s">>, confidence |-> R(8, 10),
       tags |-> << <<"r", "e", "v">>, <<"a", "p", "i">> >>,
       audience_relevance_json |-> RelevanceJson(R(9, 100), R(4, 10))],
      [id |-> 3, type |-> "event", content |-> <<"a", "p", "i">>,
       source |-> <<"m", "r", "r">>, confidence |-> R(8, 10),
       tags |-> <<>>,
       audience_relevance_json |-> RelevanceJson(R(1, 10), R(5, 100))],
      [id |-> 4, type |-> "metric", content |-> <<"d", "a", "u">>,
       source |-> <<"R", "E", "V">>, confidence |-> R(5, 10),
       tags |-> << <<"g", "r", "o">>, <<"A", "p", "i">> >>,
       audience_relevance_json |-> RelevanceJson(R(5, 100), R(35, 100))],
      [id |-> 5, type |-> "insight", content |-> <<"e", "v", "e">>,
       source |-> <<"i", "n", "s">>, confidence |-> R(7, 10),
       tags |-> << <<"a", "p", "i">> >>,
       audience_relevance_json |-> RelevanceJson(R(3, 10), R(4, 10))] }

\* The edge rows an edges file may hold; eid is the row's identity in the
\* database (the relationship, the AUTOINCREMENT id).
StoredEdgePool ==
    { [eid |-> 1, source_id |-> 1, target_id |-> 2, weight |-> R(5, 10),
       relationship_type |-> "causality"],
      [eid |-> 2, source_id |-> 2, target_id |-> 3, weight |-> R(35, 100),
       relationship_type |-> "influence"],
      [eid |-> 3, source_id |-> 3, target_id |-> 1, weight |-> R(2, 10),
       relationship_type |-> "influence"],
      [eid |-> 4, source_id |-> 1, target_id |-> 4, weight |-> R(45, 100),
       relationship_type |-> "relevance"],
      [eid |-> 5, source_id |-> 4, target_id |-> 5, weight |-> R(3, 10),
       relationship_type |-> "relevance"],
      [eid |-> 6, source_id |-> 5, target_id |-> 1, weight |-> R(4, 10),
       relationship_type |-> "causality"],
      [eid |-> 7, source_id |-> 2, target_id |-> 5, weight |-> R(6, 10),
       relationship_type |-> "relevance"] }

Ids(rows) == {n.id : n \in rows}

\* LIMIT 10 of the expansion query of get_audience_focused_graph
ExpansionLimit == 10

\* A graph with more neighbours of its focused nodes than the expansion query
\* keeps (LIMIT 10): two hubs relevant to investors, and satellites relevant to
\* nobody, each tied to hub 11, the first one also to hub 12.
HubIds == {11, 12}

SatelliteIds == 13..(13 + ExpansionLimit)

HubNode(id, confidence, investors) ==
    [id |-> id, type |-> "metric", content |-> <<"h", "u", "b">>,
     source |-> <<"h", "u", "b">>, confidence |-> confidence, tags |-> <<>>,
     audience_relevance_json |-> RelevanceJson(investors, 0)]

HubGraph ==
    [nodes |-> {HubNode(11, R(95, 100), R(5, 10)), HubNode(12, R(9, 10), R(45, 100))}
               \cup {HubNode(k, R(k, 100), 0) : k \in SatelliteIds},
     edges |-> {[eid |-> k, source_id |-> k, target_id |-> 11,
                 weight |-> R(40 + 5 * (k - 13), 100), relationship_type |-> "relevance"] :
                  k \in SatelliteIds}
               \cup {[eid |-> 1, source_id |-> 12, target_id |-> 13, weight |-> R(4, 10),
                      relationship_type |-> "relevance"],
                     [eid |-> 2, source_id |-> 12, target_id |-> 14, weight |-> R(3, 10),
                      relationship_type |-> "relevance"]}]

\* the edges of the pool between the nodes chosen: save_graph writes only edges
\* between nodes it also writes
\* A graph with more sources than top_sources keeps (LIMIT 10): source j of
\* the first nine has 11 - j nodes, the last two have one node each, and one
\* more node has neither source nor type (its record in the nodes file lacks
\* the keys, so node.get('source') and node.get('type') store null).
SourceNames == <<"a", "b", "c", "d", "e", "f", "g", "h", "i", "j", "k">>

SourceSize(j) == IF j <= 9 THEN 11 - j ELSE 1

SourceNode(j, k) ==
    [id |-> 100 * j + k, type |-> IF k = 1 THEN "metric" ELSE "insight",
     content |-> <<"s", "r", "c">>, source |-> <<"s", SourceNames[j]>>,
     confidence |-> IF k <= 2 THEN R(8, 10) ELSE R(79, 100), tags |-> <<>>,
     audience_relevance_json |-> RelevanceJson(0, 0)]

SourcelessNode ==
    [id |-> 99, content |-> <<"s", "r", "c">>,
     confidence |-> R(9, 10), tags |-> <<>>,
     audience_relevance_json |-> RelevanceJson(0, 0)]

SourcesGraph ==
    [nodes |-> {SourceNode(p[1], p[2]) :
                  p \in {q \in (DOMAIN SourceNames) \X (1..10) : q[2] <= SourceSize(q[1])}}
               \cup {SourcelessNode},
     edges |-> {}]

\* A stored audience_relevance_json that is no JSON object: text that does not
\* parse ("unparseable"), or JSON of another type such as [] ("array"),
\* which is what json.dumps stores for a node whose audience_relevance is a list.
JsonKinds == {"object", "unparseable", "array"}

MalformedJson(kind) == [kind |-> kind, members |-> [a \in {} |-> 0]]

\* Graphs in which one node, of a confidence between those of two nodes that
\* qualify for both audiences, carries such a value.
MalformedGraphs ==
    { LET ns == {n \in StoredNodePool : n.id \in {1, 5}}
                \cup {[id |-> 6, type |-> "metric", content |-> <<"b", "a", "d">>,
                       source |-> <<"m", "r", "r">>, confidence |-> R(8, 10),
                       tags |-> <<>>, audience_relevance_json |-> MalformedJson(kind)]}
      IN  [nodes |-> ns,
           edges |-> {e \in StoredEdgePool :
                        e.source_id \in Ids(ns) /\ e.target_id \in Ids(ns)}] :
      kind \in JsonKinds \ {"object"} }

StoredGraphs ==
    { [nodes |-> ns,
       edges |-> {e \in StoredEdgePool : e.source_id \in Ids(ns) /\ e.target_id \in Ids(ns)}] :
      ns \in {x \in SUBSET StoredNodePool : x # {} /\ Cardinality(x) <= MaxStored} }
    \cup {HubGraph}
    \cup MalformedGraphs
    \cup {SourcesGraph}

(***************************************************************************)
(* Query helpers                                                           *)
(***************************************************************************)
LowerChar(c) ==
    CASE c = "A" -> "a" [] c = "E" -> "e" [] c = "I" -> "i" [] c = "P" -> "p"
      [] c = "R" -> "r" [] c = "V" -> "v" [] OTHER -> c

\* Cypher toLower, and the case folding of SQLite's LIKE
toLower(text) == [i \in DOMAIN text |-> LowerChar(text[i])]

\* Cypher: text CONTAINS part
CONTAINS(text, part) ==
    \E i \in 0..(Len(text) - Len(part)) : SubSeq(text, i + 1, i + Len(part)) = part

\* SQLite: text LIKE pattern (% any run of characters, _ any one character,
\* letters compared without case)
RECURSIVE LIKE(_, _)
LIKE(text, pattern) ==
    IF pattern = <<>> THEN text = <<>>
    ELSE IF Head(pattern) = "%"
         THEN LIKE(text, Tail(pattern)) \/ (text # <<>> /\ LIKE(Tail(text), pattern))
         ELSE /\ text # <<>>
              /\ Head(pattern) = "_" \/ LowerChar(Head(pattern)) = LowerChar(Head(text))
              /\ LIKE(Tail(text), Tail(pattern))

\* ORDER BY confidence DESC: any order of the rows with confidence descending
\* (rows of equal confidence come in either order)
RECURSIVE OrderByConfidenceDesc(_)
OrderByConfidenceDesc(rows) ==
    IF rows = {} THEN {<<>>}
    ELSE UNION { {<<first>> \o rest : rest \in OrderByConfidenceDesc(rows \ {first})} :
                 first \in {m \in rows : \A o \in rows : m.confidence >= o.confidence} }

\* LIMIT n, and the slice [:n], for n >= 0
Take(rows, n) == SubSeq(rows, 1, Min(n, Len(rows)))

SeqIds(rows) == {rows[i].id : i \in DOMAIN rows}

(***************************************************************************)
(* get_filtered_graph                                                      *)
(***************************************************************************)
FilterDefaultLimit == 100

\* if tags: conditions.append("any(tag IN n.tags WHERE tag IN $tags)")
Neo4jTagCondition(n, tags) ==
    tags # <<>> => \E tag \in Range(n.tags) : tag \in Range(tags)

\* the WHERE clause built at neo4j_client.py 271-286; None and [] are both <<>>
Neo4jFilterWhere(n, c) ==
    /\ n.confidence >= c.min_confidence
    /\ c.node_types # <<>> => n.type \in Range(c.node_types)
    /\ c.sources # <<>> => n.source \in Range(c.sources)
    /\ Neo4jTagCondition(n, c.tags)

\* the WHERE clause built at simple_graph_client.py 236-249: tags is not read
SimpleFilterWhere(n, c) ==
    /\ n.confidence >= c.min_confidence
    /\ c.node_types # <<>> => n.type \in Range(c.node_types)
    /\ c.sources # <<>> => n.source \in Range(c.sources)

FilterEdgeWhereMutant(e, node_ids, min_weight) ==
    e.source_id \in node_ids /\ e.weight >= min_weight

\* WHERE source.id IN $node_ids AND target.id IN $node_ids AND r.weight >= $min_weight
FilterEdgeWhere(e, node_ids, min_weight) ==
    e.source_id \in node_ids /\ e.target_id \in node_ids /\ e.weight >= min_weight

\* The results a call may return: one for each order the database may give
\* rows of equal confidence.
Neo4j_get_filtered_graph(g, c) ==
    { [nodes |-> Take(ordered, c.limit),
       edges |-> {e \in g.edges :
                    FilterEdgeWhere(e, SeqIds(Take(ordered, c.limit)), c.min_weight)}] :
      ordered \in OrderByConfidenceDesc({n \in g.nodes : Neo4jFilterWhere(n, c)}) }

Simple_get_filtered_graph(g, c) ==
    { [nodes |-> Take(ordered, c.limit),
       edges |-> {e \in g.edges :
                    FilterEdgeWhere(e, SeqIds(Take(ordered, c.limit)), c.min_weight)}] :
      ordered \in OrderByConfidenceDesc({n \in g.nodes : SimpleFilterWhere(n, c)}) }

(***************************************************************************)
(* search_nodes                                                            *)
(***************************************************************************)
SearchDefaultLimit == 50

Neo4jSearchWhere(n, query) ==
    \/ CONTAINS(toLower(n.content), toLower(query))
    \/ CONTAINS(toLower(n.source), toLower(query))
    \/ \E tag \in Range(n.tags) : CONTAINS(toLower(tag), toLower(query))

\* WHERE content LIKE ? OR source LIKE ?, with f'%{query}%' for both
SimpleSearchWhere(n, query) ==
    \/ LIKE(n.content, <<"%">> \o query \o <<"%">>)
    \/ LIKE(n.source, <<"%">> \o query \o <<"%">>)

Neo4j_search_nodes(g, c) ==
    { [nodes |-> Take(ordered, c.limit), edges |-> {}] :
      ordered \in OrderByConfidenceDesc({n \in g.nodes : Neo4jSearchWhere(n, c.query)}) }

Simple_search_nodes(g, c) ==
    { [nodes |-> Take(ordered, c.limit), edges |-> {}] :
      ordered \in OrderByConfidenceDesc({n \in g.nodes : SimpleSearchWhere(n, c.query)}) }

(***************************************************************************)
(* get_audience_focused_graph                                              *)
(***************************************************************************)
Neo4jAudienceDefaultLimit == 25
AudienceEdgeLimit == 100

Neo4jRelevanceFloor == R(1, 10)
SimpleRelevanceFloor == 0
InsightBoost == R(12, 10)
ExpansionRelevance == R(3, 10)
ExpansionMinWeight == R(4, 10)
Neo4jAudienceMinWeight == R(35, 100)
SimpleAudienceMinWeight == R(3, 10)

\* json.loads(text): the mapping, for the text of a JSON object
json_loads(text) == text.members

\* json.loads raises JSONDecodeError, which the loop catches: continue
DecodeFails(n) == n.audience_relevance_json.kind = "unparseable"

\* json.loads returns a value without .get: AttributeError, which
\* except (json.JSONDecodeError, KeyError) does not catch
GetRaises(n) == n.audience_relevance_json.kind = "array"

\* audience_data.get(audience, 0)
dict_get(mapping, key, default) ==
    IF key \in DOMAIN mapping THEN mapping[key] ELSE default

AudienceRow(n, relevance_score, is_expansion) ==
    [id |-> n.id, type |-> n.type, confidence |-> n.confidence,
     relevance_score |-> relevance_score, is_expansion |-> is_expansion]

\* the sort keys: (relevance_score, confidence) in neo4j_client.py, and
\* relevance_score in simple_graph_client.py
KeyGreater(key, x, y) ==
    IF key = "relevance_score, confidence"
    THEN \/ x.relevance_score > y.relevance_score
         \/ x.relevance_score = y.relevance_score /\ x.confidence > y.confidence
    ELSE x.relevance_score > y.relevance_score

\* list.sort(key=..., reverse=True): stable, so x goes before the first row that
\* it is strictly greater than, and after every row that is its equal
RECURSIVE InsertDesc(_, _, _)
InsertDesc(sorted, x, key) ==
    IF sorted = <<>> THEN <<x>>
    ELSE IF KeyGreater(key, x, Head(sorted)) THEN <<x>> \o sorted
    ELSE <<Head(sorted)>> \o InsertDesc(Tail(sorted), x, key)

RECURSIVE SortDesc(_, _)
SortDesc(rows, key) ==
    IF rows = <<>> THEN <<>>
    ELSE InsertDesc(SortDesc(SubSeq(rows, 1, Len(rows) - 1), key), rows[Len(rows)], key)

Neo4jAdmitsMutant(n, audience) ==
    /\ ~DecodeFails(n)
    /\ (IF n.type = "insight"
        THEN Times(dict_get(json_loads(n.audience_relevance_json), audience, 0), InsightBoost)
        ELSE dict_get(json_loads(n.audience_relevance_json), audience, 0))
       > Neo4jRelevanceFloor

\* neo4j_client.py 357-369: the node is scored when its JSON parses and its
\* relevance is above 0.1 (JSONDecodeError: continue)
Neo4jAdmits(n, audience) ==
    /\ ~DecodeFails(n)
    /\ dict_get(json_loads(n.audience_relevance_json), audience, 0) > Neo4jRelevanceFloor

\* node['relevance_score'] = relevance_score, times 1.2 for an insight
Neo4jScore(n, audience) ==
    LET relevance_score == dict_get(json_loads(n.audience_relevance_json), audience, 0)
    IN  IF n.type = "insight" THEN Times(relevance_score, InsightBoost) ELSE relevance_score

RECURSIVE SumWeights(_)
SumWeights(rels) ==
    IF rels = {} THEN 0
    ELSE LET e == CHOOSE x \in rels : TRUE IN e.weight + SumWeights(rels \ {e})

\* (focused)-[r:RELATES_TO]-(connected), either direction, r.weight >= 0.4
ExpansionRels(g, focused_ids, connected_id) ==
    {e \in g.edges :
        /\ e.weight >= ExpansionMinWeight
        /\ \/ e.source_id = connected_id /\ e.target_id \in focused_ids
           \/ e.target_id = connected_id /\ e.source_id \in focused_ids}

ExpansionBeforeMutant(g, focused_ids, x, y) ==
    LET rx == ExpansionRels(g, focused_ids, x.id)
        ry == ExpansionRels(g, focused_ids, y.id)
    IN  \/ Cardinality(rx) < Cardinality(ry)
        \/ /\ Cardinality(rx) = Cardinality(ry)
           /\ SumWeights(rx) * Cardinality(ry) <= SumWeights(ry) * Cardinality(rx)

\* ORDER BY connection_count DESC, avg_weight DESC
ExpansionBefore(g, focused_ids, x, y) ==
    LET rx == ExpansionRels(g, focused_ids, x.id)
        ry == ExpansionRels(g, focused_ids, y.id)
    IN  \/ Cardinality(rx) > Cardinality(ry)
        \/ /\ Cardinality(rx) = Cardinality(ry)
           /\ SumWeights(rx) * Cardinality(ry) >= SumWeights(ry) * Cardinality(rx)

\* the orders in which ORDER BY connection_count DESC, avg_weight DESC may
\* return the connected nodes
RECURSIVE ExpansionOrders(_, _, _)
ExpansionOrders(g, focused_ids, connected) ==
    IF connected = {} THEN {<<>>}
    ELSE UNION { {<<first>> \o rest :
                    rest \in ExpansionOrders(g, focused_ids, connected \ {first})} :
                 first \in {m \in connected :
                              \A o \in connected : ExpansionBefore(g, focused_ids, m, o)} }

\* the expansion query: the rows it may return, LIMIT 10
ExpansionNodes(g, focused_ids) ==
    LET connected == {n \in g.nodes :
                        n.id \notin focused_ids /\ ExpansionRels(g, focused_ids, n.id) # {}}
    IN  { Take(f, ExpansionLimit) : f \in ExpansionOrders(g, focused_ids, connected) }

\* LIMIT n of rows ordered by weight descending: the sets of rows it may keep
TopByWeight(rows, n) ==
    IF Cardinality(rows) <= n THEN {rows}
    ELSE {kept \in SUBSET rows :
            /\ Cardinality(kept) = n
            /\ \A k \in kept : \A r \in rows \ kept : k.weight >= r.weight}

\* (source)-[r:RELATES_TO]-(target): each relationship matches once in each
\* direction
Neo4jAudienceEdgeRows(g, node_ids) ==
    LET forward == {e \in g.edges :
                      /\ e.source_id \in node_ids /\ e.target_id \in node_ids
                      /\ e.weight >= Neo4jAudienceMinWeight}
    IN  forward \cup {[e EXCEPT !.source_id = e.target_id, !.target_id = e.source_id] :
                        e \in forward}

EmptyAudienceGraph == [nodes |-> <<>>, edges |-> {}, raised |-> FALSE]

\* the call ends with the exception
RaisedAudienceGraph == [nodes |-> <<>>, edges |-> {}, raised |-> TRUE]

\* the loop visits every row, so a row on which .get raises ends it; the
\* except Exception around the whole body returns the empty graph
Neo4j_get_audience_focused_graph(g, c) ==
    IF \E n \in g.nodes : GetRaises(n) THEN {EmptyAudienceGraph}
    ELSE
    UNION {
      LET admitted == SelectSeq(all_nodes, LAMBDA n : Neo4jAdmits(n, c.audience))
          audience_nodes == [i \in DOMAIN admitted |->
                                AudienceRow(admitted[i], Neo4jScore(admitted[i], c.audience), FALSE)]
          focused_nodes == Take(SortDesc(audience_nodes, "relevance_score, confidence"), c.limit)
      IN  IF audience_nodes = <<>> THEN {EmptyAudienceGraph}
          ELSE UNION {
                 LET all_rows == focused_nodes \o
                                   [i \in DOMAIN expansion_nodes |->
                                      AudienceRow(expansion_nodes[i], ExpansionRelevance, TRUE)]
                 IN  { [nodes |-> all_rows, edges |-> kept, raised |-> FALSE] :
                       kept \in TopByWeight(Neo4jAudienceEdgeRows(g, SeqIds(all_rows)),
                                            AudienceEdgeLimit) } :
                 expansion_nodes \in ExpansionNodes(g, SeqIds(focused_nodes)) } :
      all_nodes \in OrderByConfidenceDesc(g.nodes) }

\* simple_graph_client.py 300-307: relevance above 0.0
SimpleAdmits(n, audience) ==
    /\ ~DecodeFails(n)
    /\ dict_get(json_loads(n.audience_relevance_json), audience, 0) > SimpleRelevanceFloor

\* no try around the loop: the AttributeError leaves the call
Simple_get_audience_focused_graph(g, c) ==
    IF \E n \in g.nodes : GetRaises(n) THEN {RaisedAudienceGraph}
    ELSE
    { LET admitted == SelectSeq(all_nodes, LAMBDA n : SimpleAdmits(n, c.audience))
          relevant_nodes == [i \in DOMAIN admitted |->
                                AudienceRow(admitted[i],
                                            json_loads(admitted[i].audience_relevance_json)[c.audience],
                                            FALSE)]
          kept == Take(SortDesc(relevant_nodes, "relevance_score"), c.limit)
      IN  [nodes |-> kept,
           edges |-> {e \in g.edges :
                        /\ e.source_id \in SeqIds(kept) /\ e.target_id \in SeqIds(kept)
                        /\ e.weight >= SimpleAudienceMinWeight},
           raised |-> FALSE] :
      all_nodes \in OrderByConfidenceDesc(g.nodes) }

(***************************************************************************)
(* get_graph_overview                                                      *)
(***************************************************************************)
TopSourcesLimit == 10

HighConfidence == R(8, 10)

\* node.get(key) stored null
IsNull(n, key) == key \notin DOMAIN n

\* GROUP BY key with COUNT(*): one row per value of the key among the rows,
\* the rows whose key is null forming a group of their own
GroupCount(rows, key) ==
    { [value |-> <<v>>, count |-> Cardinality({n \in rows : ~IsNull(n, key) /\ n[key] = v})] :
      v \in {n[key] : n \in {m \in rows : ~IsNull(m, key)}} }
    \cup { [value |-> <<>>, count |-> Cardinality({n \in rows : IsNull(n, key)})] :
           x \in {n \in rows : IsNull(n, key)} }

\* ORDER BY count DESC: any order of the rows with count descending
RECURSIVE OrderByCountDesc(_)
OrderByCountDesc(rows) ==
    IF rows = {} THEN {<<>>}
    ELSE UNION { {<<first>> \o rest : rest \in OrderByCountDesc(rows \ {first})} :
                 first \in {m \in rows : \A o \in rows : m.count >= o.count} }

\* neo4j_client.py 196-200: WHERE n.confidence >= 0.8
Neo4jHighConfidence(n) == n.confidence >= HighConfidence

SimpleHighConfidenceMutant(n) == n.confidence > HighConfidence

\* simple_graph_client.py 199: WHERE confidence >= 0.8
SimpleHighConfidence(n) == n.confidence >= HighConfidence

\* neo4j_client.py 170-215: MATCH (n:Node) grouped by n.type; MATCH (n:Node)
\* WHERE n.source IS NOT NULL grouped by n.source, LIMIT 10; count of all
\* nodes and of all relationships
Neo4j_get_graph_overview(g) ==
    { [total_nodes |-> Cardinality(g.nodes),
       total_relationships |-> Cardinality(g.edges),
       node_types |-> node_counts,
       top_sources |-> Take(sources, TopSourcesLimit),
       high_confidence_nodes |-> Cardinality({n \in g.nodes : Neo4jHighConfidence(n)})] :
      node_counts \in OrderByCountDesc(GroupCount(g.nodes, "type")),
      sources \in OrderByCountDesc(GroupCount({n \in g.nodes : ~IsNull(n, "source")},
                                              "source")) }

\* simple_graph_client.py 168-210: SELECT COUNT(*) of nodes and of edges;
\* GROUP BY type; WHERE source IS NOT NULL GROUP BY source LIMIT 10
Simple_get_graph_overview(g) ==
    { [total_nodes |-> Cardinality({n.id : n \in g.nodes}),
       total_relationships |-> Cardinality({e.eid : e \in g.edges}),
       node_types |-> node_types,
       top_sources |-> Take(top_sources, TopSourcesLimit),
       high_confidence_nodes |-> Cardinality({n \in g.nodes : SimpleHighConfidence(n)})] :
      node_types \in OrderByCountDesc(GroupCount(g.nodes, "type")),
      top_sources \in OrderByCountDesc(GroupCount({n \in g.nodes : ~IsNull(n, "source")},
                                                  "source")) }

(***************************************************************************)
(* The query clients: one request, served by each backend                  *)
(***************************************************************************)
Limits(default) == {1, 2, default}

NoArguments ==
    [node_types |-> <<>>, sources |-> <<>>, min_confidence |-> 0, min_weight |-> 0,
     tags |-> <<>>, limit |-> 0, query |-> <<>>, audience |-> NoValue]

FilterCalls ==
    { [NoArguments EXCEPT !.node_types = ts, !.sources = ss, !.min_confidence = mc,
                          !.min_weight = mw, !.tags = tg, !.limit = lim] :
      ts \in {<<>>, <<"metric", "insight">>},
      ss \in {<<>>, << <<"m", "r", "r">> >>},
      mc \in {0, R(8, 10)},
      mw \in {R(3, 10), R(5, 10)},
      tg \in {<<>>, << <<"g", "r", "o">> >>},
      lim \in Limits(FilterDefaultLimit) }

SearchCalls ==
    { [NoArguments EXCEPT !.query = q, !.limit = lim] :
      q \in {<<"r", "e", "v">>, <<"A", "P">>, <<"z">>},
      lim \in Limits(SearchDefaultLimit) }

AudienceCalls ==
    { [NoArguments EXCEPT !.audience = a, !.limit = lim] :
      a \in {"investors", "customers", "press"},
      lim \in Limits(Neo4jAudienceDefaultLimit) }

Calls ==
    {[op |-> "get_filtered_graph", args |-> c] : c \in FilterCalls}
    \cup {[op |-> "search_nodes", args |-> c] : c \in SearchCalls}
    \cup {[op |-> "get_audience_focused_graph", args |-> c] : c \in AudienceCalls}
    \cup {[op |-> "get_graph_overview", args |-> NoArguments]}

QueryInit ==
    /\ store \in StoredGraphs
    /\ qcall \in Calls
    \* the graph of many sources is asked for its overview only
    /\ store = SourcesGraph => qcall.op = "get_graph_overview"
    /\ qres = [neo4j |-> <<>>, simple |-> <<>>]
    /\ BuilderInit
    /\ AnalyzeIdle
    /\ ApiIdle
    /\ ExtractIdle
    /\ FilesIdle

Serve(backend, op, results) ==
    /\ qcall.op = op
    /\ qres[backend] = <<>>
    /\ \E result \in results : qres' = [qres EXCEPT ![backend] = <<result>>]
    /\ UNCHANGED <<store, qcall, builderVars, analyzeVars, apiVars, extractVars, fileVars, loadVars>>

Neo4jGetFilteredGraph ==
    Serve("neo4j", "get_filtered_graph", Neo4j_get_filtered_graph(store, qcall.args))

SimpleGetFilteredGraph ==
    Serve("simple", "get_filtered_graph", Simple_get_filtered_graph(store, qcall.args))

Neo4jSearchNodes ==
    Serve("neo4j", "search_nodes", Neo4j_search_nodes(store, qcall.args))

SimpleSearchNodes ==
    Serve("simple", "search_nodes", Simple_search_nodes(store, qcall.args))

Neo4jGetAudienceFocusedGraph ==
    Serve("neo4j", "get_audience_focused_graph",
          Neo4j_get_audience_focused_graph(store, qcall.args))

SimpleGetAudienceFocusedGraph ==
    Serve("simple", "get_audience_focused_graph",
          Simple_get_audience_focused_graph(store, qcall.args))

Neo4jGetGraphOverview ==
    Serve("neo4j", "get_graph_overview", Neo4j_get_graph_overview(store))

SimpleGetGraphOverview ==
    Serve("simple", "get_graph_overview", Simple_get_graph_overview(store))

QueryNext ==
    \/ Neo4jGetGraphOverview
    \/ SimpleGetGraphOverview
    \/ Neo4jGetFilteredGraph
    \/ SimpleGetFilteredGraph
    \/ Neo4jSearchNodes
    \/ SimpleSearchNodes
    \/ Neo4jGetAudienceFocusedGraph
    \/ SimpleGetAudienceFocusedGraph

SpecQuery == QueryInit /\ [][QueryNext]_vars

(***************************************************************************)
(* graph_api: the ConnectionManager and the /api handlers                  *)
(***************************************************************************)
WebSockets == 1..MaxSockets

\* list.remove(x) when x is in the list, the list itself otherwise
RECURSIVE ListRemove(_, _)
ListRemove(list, x) ==
    IF list = <<>> THEN <<>>
    ELSE IF Head(list) = x THEN Tail(list)
    ELSE <<Head(list)>> \o ListRemove(Tail(list), x)

\* ConnectionManager.disconnect: a plain function, it returns None
disconnectMutant(connections, websocket) == connections
disconnect(connections, websocket) == ListRemove(connections, websocket)

\* the index of the first connection whose send_json raises, 0 when none does
FirstFailing(connections, failed) ==
    IF \E i \in DOMAIN connections : connections[i] \in failed
    THEN CHOOSE i \in DOMAIN connections :
            /\ connections[i] \in failed
            /\ \A j \in 1..(i - 1) : connections[j] \notin failed
    ELSE 0

\* "await self.disconnect(connection)" in the except clause: disconnect has
\* removed the connection and returned None, and awaiting None raises TypeError
AwaitDisconnectRaises(k) == k # 0

\* ConnectionManager.broadcast: the connections it leaves, the connections its
\* message reached, and whether it raised
broadcast(connections, failed) ==
    LET k == FirstFailing(connections, failed)
    IN  IF AwaitDisconnectRaises(k)
        THEN [active |-> disconnect(connections, connections[k]),
              delivered |-> Range(SubSeq(connections, 1, k - 1)),
              raised |-> TRUE]
        ELSE [active |-> connections, delivered |-> Range(connections), raised |-> FALSE]

Response(op, status, body, backend_called, broadcast_called, broadcast_raised) ==
    [op |-> op, status |-> status, body |-> body, backend_called |-> backend_called,
     broadcast_called |-> broadcast_called, broadcast_raised |-> broadcast_raised,
     connections_before |-> active_connections, failing_before |-> failing,
     backend_ok_before |-> backend_ok]

\* startup_event: neo4j_client = Neo4jGraphClient()
Startup ==
    /\ neo4j_client = NoValue
    /\ backend_ok
    /\ neo4j_client' = "Neo4jGraphClient"
    /\ response' = Response("startup", NoValue, NoValue, TRUE, FALSE, FALSE)
    /\ UNCHANGED <<backend_ok, active_connections, failing, delivered>>
    /\ UNCHANGED <<builderVars, analyzeVars, queryVars, extractVars, fileVars, loadVars, handlers, bcast>>

\* the database stops or resumes answering
BackendChanges ==
    /\ backend_ok' = ~backend_ok
    /\ UNCHANGED <<neo4j_client, active_connections, failing, delivered, response>>
    /\ UNCHANGED <<builderVars, analyzeVars, queryVars, extractVars, fileVars, loadVars, handlers, bcast>>

\* websocket_endpoint: manager.connect(websocket)
Connect ==
    \E websocket \in WebSockets :
        /\ websocket \notin Range(active_connections)
        /\ active_connections' = Append(active_connections, websocket)
        /\ failing' = failing \ {websocket}
        /\ response' = Response("connect", "open", NoValue, FALSE, FALSE, FALSE)
        /\ UNCHANGED <<neo4j_client, backend_ok, delivered>>
        /\ UNCHANGED <<builderVars, analyzeVars, queryVars, extractVars, fileVars, loadVars, handlers, bcast>>

\* the peer of a connected websocket goes away: sends to it raise from now on
SocketFails ==
    \E websocket \in Range(active_connections) \ failing :
        /\ failing' = failing \cup {websocket}
        /\ UNCHANGED <<neo4j_client, backend_ok, active_connections, delivered, response>>
        /\ UNCHANGED <<builderVars, analyzeVars, queryVars, extractVars, fileVars, loadVars, handlers, bcast>>

\* websocket_endpoint: receive_json raises WebSocketDisconnect
WebSocketDisconnects ==
    \E websocket \in Range(active_connections) :
        /\ active_connections' = disconnect(active_connections, websocket)
        /\ failing' = failing \ {websocket}
        /\ response' = Response("websocket_disconnect", "closed", NoValue, FALSE, FALSE, FALSE)
        /\ UNCHANGED <<neo4j_client, backend_ok, delivered>>
        /\ UNCHANGED <<builderVars, analyzeVars, queryVars, extractVars, fileVars, loadVars, handlers, bcast>>

\* websocket_endpoint: a node_selection or graph_update message arrives and is
\* broadcast; an exception ends the handler with manager.disconnect(websocket)
WebSocketBroadcasts ==
    \E websocket \in Range(active_connections), type \in {"node_selection", "graph_update"} :
        LET b == broadcast(active_connections, failing)
        IN  /\ delivered' = b.delivered
            /\ active_connections' =
                  IF b.raised THEN disconnect(b.active, websocket) ELSE b.active
            /\ response' = Response(type, IF b.raised THEN "closed" ELSE "open", NoValue,
                                    FALSE, TRUE, b.raised) @@ [sender |-> websocket]
            /\ UNCHANGED <<neo4j_client, backend_ok, failing>>
            /\ UNCHANGED <<builderVars, analyzeVars, queryVars, extractVars, fileVars, loadVars, handlers, bcast>>

\* websocket_endpoint: a ping is answered on the same websocket
WebSocketPing ==
    \E websocket \in Range(active_connections) :
        /\ active_connections' =
              IF websocket \in failing THEN disconnect(active_connections, websocket)
              ELSE active_connections
        /\ response' = Response("ping", IF websocket \in failing THEN "closed" ELSE "open",
                                NoValue, FALSE, FALSE, FALSE)
        /\ UNCHANGED <<neo4j_client, backend_ok, failing, delivered>>
        /\ UNCHANGED <<builderVars, analyzeVars, queryVars, extractVars, fileVars, loadVars, handlers, bcast>>

\* an /api handler that does not broadcast: 500 without a client, the client's
\* method in a try, 500 when it raises.  swallows: the client's method catches
\* its own exceptions and returns an empty result
Endpoint(op, swallows) ==
    /\ response' =
          IF neo4j_client = NoValue
          THEN Response(op, "500", "Neo4j client not initialized", FALSE, FALSE, FALSE)
          ELSE IF backend_ok THEN Response(op, "200", "data", TRUE, FALSE, FALSE)
          ELSE IF swallows THEN Response(op, "200", "empty", TRUE, FALSE, FALSE)
          ELSE Response(op, "500", "str(e)", TRUE, FALSE, FALSE)
    /\ UNCHANGED <<neo4j_client, backend_ok, active_connections, failing, delivered>>
    /\ UNCHANGED <<builderVars, analyzeVars, queryVars, extractVars, fileVars, loadVars, handlers, bcast>>

\* an /api handler that broadcasts its activity inside the try
BroadcastingEndpoint(op) ==
    LET b == broadcast(active_connections, failing)
    IN  /\ IF neo4j_client = NoValue
           THEN /\ response' = Response(op, "500", "Neo4j client not initialized",
                                        FALSE, FALSE, FALSE)
                /\ UNCHANGED <<active_connections, delivered>>
           ELSE IF ~backend_ok
           THEN /\ response' = Response(op, "500", "str(e)", TRUE, FALSE, FALSE)
                /\ UNCHANGED <<active_connections, delivered>>
           ELSE /\ response' = Response(op, IF b.raised THEN "500" ELSE "200",
                                        IF b.raised THEN "str(e)" ELSE "data",
                                        TRUE, TRUE, b.raised)
                /\ active_connections' = b.active
                /\ delivered' = b.delivered
        /\ UNCHANGED <<neo4j_client, backend_ok, failing>>
        /\ UNCHANGED <<builderVars, analyzeVars, queryVars, extractVars, fileVars, loadVars, handlers, bcast>>

ApiOverview == Endpoint("/api/overview", FALSE)

ApiSearch == BroadcastingEndpoint("/api/search")

ApiFiltered == BroadcastingEndpoint("/api/graph/filtered")

ApiAudience == Endpoint("/api/graph/audience", TRUE)

ApiNeighbors == Endpoint("/api/node/neighbors", FALSE)

ApiAnalytics == Endpoint("/api/analytics", FALSE)

ApiSources == Endpoint("/api/sources", FALSE)

ApiNodeTypes == Endpoint("/api/node-types", FALSE)

ApiExport == Endpoint("/api/export/graph", FALSE)

ApiInit == BuilderInit /\ AnalyzeIdle /\ QueryIdle /\ ApiIdle /\ ExtractIdle /\ FilesIdle

ApiNext ==
    \/ Startup
    \/ BackendChanges
    \/ Connect
    \/ SocketFails
    \/ WebSocketDisconnects
    \/ WebSocketBroadcasts
    \/ WebSocketPing
    \/ ApiOverview
    \/ ApiSearch
    \/ ApiFiltered
    \/ ApiAudience
    \/ ApiNeighbors
    \/ ApiAnalytics
    \/ ApiSources
    \/ ApiNodeTypes
    \/ ApiExport

SpecApi == ApiInit /\ [][ApiNext]_vars

(***************************************************************************)
(* data_extractor: extract_data_points                                     *)
(***************************************************************************)
\* the substrings tested on _file_source, in the order of the if/elif chain
Kinds ==
    <<"daily_active_users", "feature_adoption", "monthly_recurring_revenue",
      "support_tickets", "competitor_analysis", "brand_mentions", "internal_kpis">>

\* A source object: file_source is <<the words of its _file_source>>, or <<>>
\* when it has no such key, and likewise source; name stands for the values it
\* holds; required tells whether the top-level fields an extraction rule
\* subscripts are there; items are its insights, features or opportunities
\* (TRUE: the item has the fields the rule subscripts).
DataObject(name, file_source, source, required, items) ==
    [name |-> name, file_source |-> file_source, source |-> source,
     required |-> required, items |-> items]

DataObjects ==
    { DataObject("dau", << <<"daily_active_users">> >>, <<"mixpanel">>, TRUE, <<TRUE>>),
      DataObject("dau_no_metrics", << <<"daily_active_users">> >>, <<"mixpanel">>, FALSE, <<>>),
      DataObject("dau_bad_insight", << <<"daily_active_users">> >>, <<"mixpanel">>, TRUE,
                 <<TRUE, FALSE>>),
      DataObject("features", << <<"feature_adoption">> >>, <<"amplitude">>, FALSE,
                 <<TRUE, TRUE>>),
      DataObject("no_features", << <<"feature_adoption">> >>, <<>>, FALSE, <<>>),
      DataObject("mrr", << <<"monthly_recurring_revenue">> >>, <<"stripe">>, TRUE, <<>>),
      DataObject("mrr_no_metrics", << <<"monthly_recurring_revenue">> >>, <<"stripe">>,
                 FALSE, <<>>),
      DataObject("tickets", << <<"support_tickets">> >>, <<"zendesk">>, TRUE, <<>>),
      DataObject("market", << <<"competitor_analysis">> >>, <<>>, FALSE, <<TRUE>>),
      DataObject("mentions", << <<"brand_mentions">> >>, <<"brandwatch">>, TRUE, <<>>),
      DataObject("kpis", << <<"internal_kpis">> >>, <<"hr">>, TRUE, <<>>),
      DataObject("two_kinds", << <<"feature_adoption", "daily_active_users">> >>,
                 <<"mixpanel">>, TRUE, <<TRUE>>),
      DataObject("notes", << <<"notes">> >>, <<"wiki">>, FALSE, <<>>),
      DataObject("untagged", <<>>, <<>>, FALSE, <<>>) }

\* data.get(key, 'unknown')
get_or_unknown(field, unknown) == IF field = <<>> THEN unknown ELSE field[1]

\* 'kind' in source_file
Contains(source_file, kind) == kind \in Range(source_file)

MatchingKindMutant(source_file) ==
    IF \E k \in DOMAIN Kinds : Contains(source_file, Kinds[k])
    THEN CHOOSE k \in DOMAIN Kinds :
            /\ Contains(source_file, Kinds[k])
            /\ \A j \in DOMAIN Kinds : j > k => ~Contains(source_file, Kinds[j])
    ELSE 0

\* the branch of the if/elif chain that is taken: the first whose test holds, 0
\* when none does
MatchingKind(source_file) ==
    IF \E k \in DOMAIN Kinds : Contains(source_file, Kinds[k])
    THEN CHOOSE k \in DOMAIN Kinds :
            /\ Contains(source_file, Kinds[k])
            /\ \A j \in 1..(k - 1) : ~Contains(source_file, Kinds[j])
    ELSE 0

Point(type, rule, data, item, source, tags, confidence) ==
    [type |-> type, content |-> <<rule, data.name, item>>, source |-> source,
     tags |-> tags, confidence |-> confidence]

\* one point per item, and a KeyError at the first item without its fields
ItemPoints(type, rule, data, source, tags, confidence) ==
    [raised |-> \E j \in DOMAIN data.items : ~data.items[j],
     points |-> [j \in DOMAIN data.items |->
                    Point(type, rule, data, j, source, tags, confidence)]]

MetricPointMutant(rule, data, source, tags, confidence) ==
    [raised |-> FALSE,
     points |-> <<Point("metric", rule, data, 0, source, tags, confidence)>>]

\* the point of one fixed metric, and a KeyError when its fields are missing
MetricPoint(rule, data, source, tags, confidence) ==
    [raised |-> ~data.required,
     points |-> <<Point("metric", rule, data, 0, source, tags, confidence)>>]

extract_dau_points(data, source) ==
    LET metric == MetricPoint("dau", data, source,
                              <<"growth", "users", "engagement", "monthly">>, R(95, 100))
        insights == ItemPoints("insight", "dau", data, source,
                               <<"behavior", "product", "engagement">>, R(9, 10))
    IN  [raised |-> metric.raised \/ insights.raised,
         points |-> metric.points \o insights.points]

extract_feature_points(data, source) ==
    ItemPoints("metric", "feature", data, source, <<"features", "adoption", data.name>>,
               R(88, 100))

extract_revenue_points(data, source) ==
    MetricPoint("revenue", data, source, <<"revenue", "growth", "mrr", "quarterly">>,
                R(96, 100))

extract_support_points(data, source) ==
    MetricPoint("support", data, source,
                <<"support", "satisfaction", "customer-experience">>, R(89, 100))

extract_market_points(data, source) ==
    ItemPoints("insight", "market", data, source, <<"opportunity", "expansion", data.name>>,
               R(8, 10))

extract_social_points(data, source) ==
    MetricPoint("social", data, source, <<"sentiment", "brand", "social">>, R(87, 100))

extract_team_points(data, source) ==
    MetricPoint("team", data, source, <<"team", "headcount", "satisfaction">>, R(92, 100))

\* one pass of the loop body: what data_points.extend receives
ExtractOne(data) ==
    LET source_file == get_or_unknown(data.file_source, <<"unknown">>)
        source_api == get_or_unknown(data.source, "unknown")
        kind == MatchingKind(source_file)
    IN  CASE kind = 1 -> extract_dau_points(data, source_api)
          [] kind = 2 -> extract_feature_points(data, source_api)
          [] kind = 3 -> extract_revenue_points(data, source_api)
          [] kind = 4 -> extract_support_points(data, source_api)
          [] kind = 5 -> extract_market_points(data, source_api)
          [] kind = 6 -> extract_social_points(data, source_api)
          [] kind = 7 -> extract_team_points(data, source_api)
          [] OTHER -> [raised |-> FALSE, points |-> <<>>]

\* the loop: an exception leaves it at once and nothing is returned
RECURSIVE ExtractLoop(_, _)
ExtractLoop(objects, data_points) ==
    IF objects = <<>> THEN [raised |-> FALSE, points |-> data_points]
    ELSE LET one == ExtractOne(Head(objects))
         IN  IF one.raised THEN [raised |-> TRUE, points |-> <<>>]
             ELSE ExtractLoop(Tail(objects), data_points \o one.points)

extract_data_points(objects) == ExtractLoop(objects, <<>>)

ExtractInit ==
    /\ data_list \in SeqsUpTo(DataObjects, MaxSources)
    /\ extracted = <<>>
    /\ run = "not_run"
    /\ BuilderInit
    /\ AnalyzeIdle
    /\ QueryIdle
    /\ ApiIdle
    /\ FilesIdle

ExtractDataPoints ==
    /\ extracted = <<>>
    /\ run = "not_run"
    /\ extracted' = <<extract_data_points(data_list)>>
    /\ UNCHANGED <<data_list, run, builderVars, analyzeVars, queryVars, apiVars, fileVars, loadVars>>

(***************************************************************************)
(* generate_graph.main: one build run                                      *)
(***************************************************************************)
\* What the sentence model and the keyword scan see of an extracted content:
\* the sentence of each extraction rule stands as one content of the builder.
SentenceOf(content) ==
    CASE content[1] = "revenue" -> "c1"
      [] content[1] = "feature" -> "c2"
      [] content[1] = "social" -> "c2"
      [] content[1] = "market" -> "c3"
      [] content[1] = "support" -> "c4"
      [] content[1] = "dau" -> "c5"
      [] content[1] = "team" -> "c5"

\* the data points as create_graph_nodes reads them
BuilderPoints(points) ==
    [i \in DOMAIN points |-> [points[i] EXCEPT !.content = SentenceOf(points[i].content)]]

BuildThreshold == R(25, 100)

\* where main stands: before a stage, or how it ended
Ended == {"no_data", "no_points", "error", "complete"}

\* data = builder.load_flowmetrics_data(); if not data: return
\* data_list is what the data files hold
MainLoad ==
    /\ run = "not_run"
    /\ extracted = <<>>
    /\ run' = IF data_list = <<>> THEN "no_data" ELSE "loaded"
    /\ UNCHANGED <<data_list, extracted, builderVars, fileVars, loadVars, analyzeVars, queryVars, apiVars>>

\* if not data_points: return; an exception ends main in its except clause
AfterExtractMutant(data_points) ==
    IF data_points.raised THEN "error" ELSE "extracted"
AfterExtract(data_points) ==
    IF data_points.raised THEN "error"
    ELSE IF data_points.points = <<>> THEN "no_points"
    ELSE "extracted"

\* data_points = extractor.extract_data_points(data)
MainExtract ==
    /\ run = "loaded"
    /\ extracted' = <<extract_data_points(data_list)>>
    /\ run' = AfterExtract(extracted'[1])
    /\ UNCHANGED <<data_list, builderVars, fileVars, loadVars, analyzeVars, queryVars, apiVars>>

\* builder.create_graph_nodes(data_points), on the new builder
MainCreateGraphNodes ==
    /\ run = "extracted"
    /\ LET data_points == BuilderPoints(extracted[1].points)
           made == MadeNodes(Len(nodes), data_points)
       IN  /\ nodes' = nodes \o made
           /\ nxNodes' = AddNxNodes(nxNodes, made)
           /\ last' = [op |-> "create_graph_nodes", args |-> <<>>,
                       edges_before |-> Len(edges), builds |-> last.builds,
                       points_in |-> last.points_in + Len(data_points)]
    /\ run' = "nodes_created"
    /\ UNCHANGED <<edges, nxEdges, data_list, extracted, fileVars, loadVars, analyzeVars, queryVars,
                   apiVars>>

\* builder.create_semantic_edges(similarity_threshold=0.25)
MainCreateSemanticEdges ==
    /\ run = "nodes_created"
    /\ create_semantic_edges(BuildThreshold)
    /\ run' = "edges_created"
    /\ UNCHANGED <<data_list, extracted, fileVars, loadVars, analyzeVars, queryVars, apiVars>>

\* builder.save_graph(); an exception of it is caught and printed
MainSaveGraph ==
    /\ run = "edges_created"
    /\ \E failed_at \in 0..Len(Artifacts), mode \in FailureModes :
          /\ failed_at = 0 => mode = "open"
          /\ save_graph(failed_at, mode)
          /\ run' = IF failed_at = 0 THEN "complete" ELSE "error"
    /\ UNCHANGED <<data_list, extracted, builderVars, analyzeVars, queryVars, apiVars,
                   loadVars>>

ExtractNext ==
    \/ ExtractDataPoints
    \/ MainLoad
    \/ MainExtract
    \/ MainCreateGraphNodes
    \/ MainCreateSemanticEdges
    \/ MainSaveGraph

SpecExtract == ExtractInit /\ [][ExtractNext]_vars

(***************************************************************************)
(* Loading the persisted graph into the databases                          *)
(*                                                                         *)
(* A table is the sequence of its rows: a node row is the node's id, an    *)
(* edge row the pair of its source_id and target_id.  Both databases       *)
(* outlive the process that loads them.                                    *)
(***************************************************************************)
MaxLoads == 3

\* the nodes file and the edges file one save_graph wrote
GraphFiles ==
    { [nodes |-> <<>>, edges |-> <<>>],
      [nodes |-> <<1>>, edges |-> <<>>],
      [nodes |-> <<1, 2>>, edges |-> <<<<1, 2>>>>],
      [nodes |-> <<1, 2, 3>>, edges |-> <<<<1, 2>>, <<2, 3>>>>],
      [nodes |-> <<1, 2, 3>>, edges |-> <<<<1, 2>>, <<1, 3>>, <<1, 2>>>>] }

CountOf(rows, x) == Cardinality({k \in DOMAIN rows : rows[k] = x})

\* k copies of x
Copies(x, k) == [i \in 1..k |-> x]

\* create_constraints: unique_node_id is created unless it exists or the
\* nodes there already break it; a failure is logged and passed over
create_constraints(db) ==
    [db EXCEPT !.constrained = @ \/ \A id \in Range(db.nodes) : CountOf(db.nodes, id) = 1]

\* Neo4j load_nodes_from_json: CREATE (n:Type:Node {id: ...}) per node; under
\* the constraint a second node of one id raises, which is logged and skipped
RECURSIVE Neo4jLoadNodes(_, _)
Neo4jLoadNodes(db, nodes_in) ==
    IF nodes_in = <<>> THEN db
    ELSE Neo4jLoadNodes(
            IF db.constrained /\ Head(nodes_in) \in Range(db.nodes) THEN db
            ELSE [db EXCEPT !.nodes = Append(@, Head(nodes_in))],
            Tail(nodes_in))

\* Neo4j load_edges_from_json: MATCH (source {id}) MATCH (target {id}) CREATE
\* makes one relationship for every pair of matched nodes
RECURSIVE Neo4jLoadEdges(_, _)
Neo4jLoadEdges(db, edges_in) ==
    IF edges_in = <<>> THEN db
    ELSE LET edge == Head(edges_in)
             matches == CountOf(db.nodes, edge[1]) * CountOf(db.nodes, edge[2])
         IN  Neo4jLoadEdges([db EXCEPT !.edges = @ \o Copies(edge, matches)], Tail(edges_in))

\* SQLite load_nodes_from_json: INSERT OR REPLACE INTO nodes, id the primary key
RECURSIVE SimpleLoadNodes(_, _)
SimpleLoadNodes(db, nodes_in) ==
    IF nodes_in = <<>> THEN db
    ELSE SimpleLoadNodes(
            [db EXCEPT !.nodes = Append(SelectSeq(@, LAMBDA id : id # Head(nodes_in)),
                                        Head(nodes_in))],
            Tail(nodes_in))

\* SQLite load_edges_from_json: INSERT INTO edges, the row id AUTOINCREMENT
SimpleLoadEdges(db, edges_in) == [db EXCEPT !.edges = @ \o edges_in]

\* get_graph_overview()['total_nodes']
TotalNodes(db) == Len(db.nodes)

\* the run is counted, and the counts after the first run are kept
Loaded(backend, db) ==
    [loads EXCEPT ![backend] =
        [runs |-> @.runs + 1,
         first |-> IF @.first = <<>>
                   THEN <<[nodes |-> Len(db.nodes), edges |-> Len(db.edges)]>>
                   ELSE @.first]]

LoadInit ==
    /\ graph_file \in GraphFiles
    /\ databases = [neo4j |-> [constrained |-> FALSE, nodes |-> <<>>, edges |-> <<>>],
                    simple |-> [nodes |-> <<>>, edges |-> <<>>]]
    /\ loads = [neo4j |-> [runs |-> 0, first |-> <<>>],
                simple |-> [runs |-> 0, first |-> <<>>]]
    /\ ArtifactsIdle
    /\ BuilderInit
    /\ AnalyzeIdle
    /\ QueryIdle
    /\ ApiIdle
    /\ ExtractIdle

LoadRun(backend, db) ==
    /\ loads[backend].runs < MaxLoads
    /\ databases' = [databases EXCEPT ![backend] = db]
    /\ loads' = Loaded(backend, db)
    /\ UNCHANGED <<graph_file, builderVars, analyzeVars, queryVars, apiVars, extractVars,
                   files, now, saved, edges_data>>

\* graph_api startup_event: the files are loaded when the store reports no node
StartupLoads ==
    LET db == databases.neo4j
    IN  LoadRun("neo4j",
                IF TotalNodes(db) = 0
                THEN Neo4jLoadEdges(Neo4jLoadNodes(db, graph_file.nodes), graph_file.edges)
                ELSE db)

\* initialize_neo4j_graph(nodes_file, edges_file)
InitializeNeo4jGraph ==
    LoadRun("neo4j",
            Neo4jLoadEdges(Neo4jLoadNodes(create_constraints(databases.neo4j),
                                          graph_file.nodes),
                           graph_file.edges))

\* initialize_simple_graph(nodes_file, edges_file)
InitializeSimpleGraph ==
    LoadRun("simple",
            SimpleLoadEdges(SimpleLoadNodes(databases.simple, graph_file.nodes),
                            graph_file.edges))

LoadNext == StartupLoads \/ InitializeNeo4jGraph \/ InitializeSimpleGraph

SpecLoad == LoadInit /\ [][LoadNext]_vars

(***************************************************************************)
(* graph_api: the websocket handlers and a broadcast, send by send         *)
(*                                                                         *)
(* Every await of a handler lets the other handlers run: a broadcast is    *)
(* taken one send_json at a time, and connects and handler exits fall      *)
(* between its sends.  Each websocket is one object, served by one call of *)
(* websocket_endpoint.                                                     *)
(***************************************************************************)
SocketsInit ==
    /\ BuilderInit
    /\ AnalyzeIdle
    /\ QueryIdle
    /\ ApiIdle
    /\ ExtractIdle
    /\ FilesIdle

Sending == bcast.state = "sending"

\* the subscribers that have been in active_connections since the broadcast began
StillThrough(connections) ==
    IF Sending THEN [bcast EXCEPT !.through = @ \cap Range(connections)] ELSE bcast

\* websocket_endpoint: await manager.connect(websocket), accept succeeds
HandlerConnects ==
    \E websocket \in WebSockets :
        /\ handlers[websocket] = "idle"
        /\ active_connections' = Append(active_connections, websocket)
        /\ handlers' = [handlers EXCEPT ![websocket] = "running"]
        /\ UNCHANGED <<bcast, neo4j_client, backend_ok, failing, delivered, response>>
        /\ UNCHANGED <<builderVars, analyzeVars, queryVars, extractVars, fileVars, loadVars>>

\* websocket_endpoint: websocket.accept() raises, outside the try
AcceptRaises ==
    \E websocket \in WebSockets :
        /\ handlers[websocket] = "idle"
        /\ handlers' = [handlers EXCEPT ![websocket] = "exited"]
        /\ UNCHANGED <<bcast, active_connections, neo4j_client, backend_ok, failing, delivered,
                       response>>
        /\ UNCHANGED <<builderVars, analyzeVars, queryVars, extractVars, fileVars, loadVars>>

\* the peer of a served websocket goes away: sends to it raise from now on
PeerGoes ==
    \E websocket \in WebSockets \ failing :
        /\ handlers[websocket] = "running"
        /\ failing' = failing \cup {websocket}
        /\ UNCHANGED <<bcast, handlers, active_connections, neo4j_client, backend_ok, delivered,
                       response>>
        /\ UNCHANGED <<builderVars, analyzeVars, queryVars, extractVars, fileVars, loadVars>>

\* websocket_endpoint: receive_json or the pong raises (WebSocketDisconnect or
\* any Exception) and the except clause runs manager.disconnect(websocket);
\* a handler that awaits its own broadcast is not at receive_json
HandlerExits ==
    \E websocket \in WebSockets :
        /\ handlers[websocket] = "running"
        /\ ~(Sending /\ bcast.owner = <<websocket>>)
        /\ active_connections' = disconnect(active_connections, websocket)
        /\ handlers' = [handlers EXCEPT ![websocket] = "exited"]
        /\ bcast' = StillThrough(active_connections')
        /\ UNCHANGED <<neo4j_client, backend_ok, failing, delivered, response>>
        /\ UNCHANGED <<builderVars, analyzeVars, queryVars, extractVars, fileVars, loadVars>>

\* manager.broadcast(message) is called: by a handler that received a
\* node_selection or graph_update message (owner <<websocket>>), or by an /api
\* handler (owner <<>>); the for loop has taken no connection yet
BroadcastBegins ==
    \E owner \in {<<>>} \cup {<<websocket>> : websocket \in WebSockets} :
        /\ ~Sending
        /\ owner # <<>> => handlers[owner[1]] = "running"
        /\ bcast' = [state |-> "sending", owner |-> owner, index |-> 0, got |-> <<>>,
                     through |-> Range(active_connections)]
        /\ UNCHANGED <<handlers, active_connections, neo4j_client, backend_ok, failing,
                       delivered, response>>
        /\ UNCHANGED <<builderVars, analyzeVars, queryVars, extractVars, fileVars, loadVars>>

\* for connection in self.active_connections: the list iterator ends when its
\* index has reached the length the list has now
BroadcastReturns ==
    /\ Sending
    /\ bcast.index >= Len(active_connections)
    /\ bcast' = [bcast EXCEPT !.state = "returned"]
    /\ UNCHANGED <<handlers, active_connections, neo4j_client, backend_ok, failing, delivered,
                   response>>
    /\ UNCHANGED <<builderVars, analyzeVars, queryVars, extractVars, fileVars, loadVars>>

\* the iterator takes the connection at its index; await connection.send_json
BroadcastSends ==
    /\ Sending
    /\ bcast.index < Len(active_connections)
    /\ active_connections[bcast.index + 1] \notin failing
    /\ bcast' = [bcast EXCEPT !.index = @ + 1,
                              !.got = Append(@, active_connections[bcast.index + 1])]
    /\ UNCHANGED <<handlers, active_connections, neo4j_client, backend_ok, failing, delivered,
                   response>>
    /\ UNCHANGED <<builderVars, analyzeVars, queryVars, extractVars, fileVars, loadVars>>

\* send_json raises: the except clause removes the connection and awaits the
\* None that disconnect returned, which raises TypeError out of broadcast; a
\* websocket handler that made the broadcast ends with manager.disconnect
BroadcastSendRaises ==
    /\ Sending
    /\ bcast.index < Len(active_connections)
    /\ active_connections[bcast.index + 1] \in failing
    /\ LET left == disconnect(active_connections, active_connections[bcast.index + 1])
       IN  IF bcast.owner = <<>>
           THEN /\ active_connections' = left
                /\ UNCHANGED handlers
           ELSE /\ active_connections' = disconnect(left, bcast.owner[1])
                /\ handlers' = [handlers EXCEPT ![bcast.owner[1]] = "exited"]
    /\ bcast' = [bcast EXCEPT !.state = "raised", !.index = @ + 1,
                              !.through = @ \cap Range(active_connections')]
    /\ UNCHANGED <<neo4j_client, backend_ok, failing, delivered, response>>
    /\ UNCHANGED <<builderVars, analyzeVars, queryVars, extractVars, fileVars, loadVars>>

SocketsNext ==
    \/ HandlerConnects
    \/ AcceptRaises
    \/ PeerGoes
    \/ HandlerExits
    \/ BroadcastBegins
    \/ BroadcastReturns
    \/ BroadcastSends
    \/ BroadcastSendRaises

SpecSockets == SocketsInit /\ [][SocketsNext]_vars

(***************************************************************************)
(* Claims about the builder                                                *)
(***************************************************************************)
AfterEdgeBuild == last.op = "create_semantic_edges"

\* the edges the last call of create_semantic_edges appended
Appended == (last.edges_before + 1)..Len(edges)

EdgePair(edge) == {edge.source_id, edge.target_id}

NoDuplicatePair(edge_list) ==
    \A a, b \in DOMAIN edge_list : a # b => EdgePair(edge_list[a]) # EdgePair(edge_list[b])

NoSelfLoop(edge_list) ==
    \A a \in DOMAIN edge_list : edge_list[a].source_id # edge_list[a].target_id

\* C1: after one call of create_semantic_edges on a builder whose edge list was
\* empty, the loops have visited every index pair i < j exactly once and nothing
\* else, and the edge list holds at most one edge per unordered pair of nodes and
\* no edge from a node to itself.
C1_OneEdgePerPair ==
    (AfterEdgeBuild /\ last.edges_before = 0) =>
        LET visited == OuterLoop(1, Len(nodes))
        IN  /\ \A i, j \in 1..Len(nodes) :
                  i < j => Cardinality({k \in DOMAIN visited :
                                          visited[k] = <<i, j>> \/ visited[k] = <<j, i>>}) = 1
            /\ \A k \in DOMAIN visited : visited[k][1] < visited[k][2]
            /\ NoDuplicatePair(edges)
            /\ NoSelfLoop(edges)

C1_Witness ==
    /\ AfterEdgeBuild
    /\ last.edges_before = 0
    /\ Len(nodes) = 3
    /\ Len(edges) >= 2

NodeIds == {nodes[i].id : i \in DOMAIN nodes}

\* C24: after any sequence of create_graph_nodes and create_semantic_edges
\* calls on one builder, every edge's source_id and target_id are keys of
\* self.nodes, the nodes of nx_graph are the keys of self.nodes, self.nodes
\* holds as many nodes as data points were passed in, and the unordered pairs
\* of nx_graph are the unordered pairs occurring in self.edges.
C24_GraphStoresAgree ==
    /\ \A k \in DOMAIN edges : edges[k].source_id \in NodeIds /\ edges[k].target_id \in NodeIds
    /\ DOMAIN nxNodes = NodeIds
    /\ Cardinality(NodeIds) = last.points_in
    /\ DOMAIN nxEdges = {EdgePair(edges[k]) : k \in DOMAIN edges}

\* nodes added in two calls, edges built twice: the edge list holds a pair
\* twice and nx_graph holds it once
C24_Witness ==
    /\ last.op = "create_semantic_edges"
    /\ last.builds = 2
    /\ last.points_in = 3
    /\ Len(edges) > Cardinality(DOMAIN nxEdges)
    /\ \E k \in DOMAIN edges : edges[k].target_id = 3

\* C2: every edge a call of create_semantic_edges(similarity_threshold) appends
\* has 0 < weight <= 1 and semantic_similarity > similarity_threshold, whatever
\* the threshold (zero and negative ones too).
C2_WeightAndSimilarityBounds ==
    AfterEdgeBuild =>
        \A k \in Appended :
            /\ 0 < edges[k].weight
            /\ edges[k].weight <= One
            /\ edges[k].semantic_similarity > last.args[1]

\* a negative threshold that a pair of negative similarity clears, and an edge
\* whose weight the cap holds at 1
C2_Witness ==
    /\ AfterEdgeBuild
    /\ last.args[1] < 0
    /\ \E i, j \in DOMAIN nodes :
          /\ i < j
          /\ calculate_semantic_similarity(nodes[i].embedding, nodes[j].embedding) < 0
          /\ calculate_semantic_similarity(nodes[i].embedding, nodes[j].embedding) > last.args[1]
    /\ \E k \in Appended : edges[k].weight = One /\ edges[k].shared_tags # {}

\* C3: a call emits an edge for a pair iff its similarity is strictly above the
\* threshold and its weight is positive, and then exactly one; two "metric"
\* nodes that share no tag get a "relevance" edge whose weight is the similarity.
C3_EdgeIffAboveThreshold ==
    AfterEdgeBuild =>
        \A i, j \in DOMAIN nodes :
            i < j =>
                LET s == calculate_semantic_similarity(nodes[i].embedding, nodes[j].embedding)
                    w == analyze_relationship(nodes[i], nodes[j], s).weight
                    made == {k \in Appended : /\ edges[k].source_id = nodes[i].id
                                              /\ edges[k].target_id = nodes[j].id}
                IN  /\ (s > last.args[1] /\ w > 0) => Cardinality(made) = 1
                    /\ ~(s > last.args[1] /\ w > 0) => made = {}
                    /\ \A k \in made :
                          (/\ nodes[i].type = "metric"
                           /\ nodes[j].type = "metric"
                           /\ Range(nodes[i].tags) \cap Range(nodes[j].tags) = {})
                          => /\ edges[k].relationship_type = "relevance"
                             /\ edges[k].weight = s
                             /\ edges[k].semantic_similarity = s

\* threshold 0.3: a pair at exactly 0.3 without an edge, and two tag-disjoint
\* metrics at 0.32 with their relevance edge of weight 0.32
C3_Witness ==
    /\ AfterEdgeBuild
    /\ last.args[1] = R(3, 10)
    /\ \E i, j \in DOMAIN nodes :
          /\ i < j
          /\ calculate_semantic_similarity(nodes[i].embedding, nodes[j].embedding) = R(3, 10)
          /\ ~\E k \in Appended : EdgePair(edges[k]) = {nodes[i].id, nodes[j].id}
    /\ \E k \in Appended :
          /\ edges[k].relationship_type = "relevance"
          /\ edges[k].weight = R(32, 100)
          /\ edges[k].shared_tags = {}
          /\ \A n \in DOMAIN nodes :
                nodes[n].id \in EdgePair(edges[k]) => nodes[n].type = "metric"

\* C6 (as claimed): a second call of create_semantic_edges on the same builder,
\* with the same nodes and the same threshold, leaves the edge list as the first
\* call left it.
C6_SecondBuildChangesNothing ==
    [][(/\ last.op = "create_semantic_edges"
        /\ last.edges_before = 0
        /\ last'.op = "create_semantic_edges"
        /\ last'.args = last.args
        /\ nodes' = nodes)
       => edges' = edges]_vars

(***************************************************************************)
(* Claims about _analyze_relationship                                      *)
(***************************************************************************)
Returned == ret # <<>>

TypePair == {arg1.type, arg2.type}

SharedArgTags == Range(arg1.tags) \cap Range(arg2.tags)

\* the first rule of the chain: insight with metric, sharing a causal tag
CausalityRule ==
    /\ TypePair = {"insight", "metric"}
    /\ SharedArgTags \cap {"growth", "improvement", "performance"} # {}

\* the second rule: event with metric or insight
InfluenceRule ==
    \/ TypePair = {"event", "metric"}
    \/ TypePair = {"event", "insight"}

\* C4: _analyze_relationship returns the type and confidence of the chain
\* causality (0.8), else influence (0.75), else relevance (0.7); and the two
\* if-blocks of the code never both fire for one pair.
C4_TypeAndConfidenceChain ==
    Returned =>
        /\ IF CausalityRule
           THEN ret[1].relationship_type = "causality" /\ ret[1].confidence = R(8, 10)
           ELSE IF InfluenceRule
           THEN ret[1].relationship_type = "influence" /\ ret[1].confidence = R(75, 100)
           ELSE ret[1].relationship_type = "relevance" /\ ret[1].confidence = R(7, 10)
        /\ ~(CausalBlockFires(arg1, arg2) /\ IsInfluencePair(arg1, arg2))

\* each of the three branches is taken, in both argument orders
C4_Witness ==
    /\ Returned
    /\ ret[1].relationship_type = "causality"
    /\ arg1.type = "metric"
    /\ arg2.type = "insight"
    /\ arg1.tags = <<"api", "performance">>
    /\ arg2.tags = <<"performance">>

\* C5: weight = min(min(s * m, 1) * (1 + t * 0.5), 1), m = 1.3, 1.2 or 1.0 by the
\* branch taken, t = |set(tags1) & set(tags2)| / max(len(tags1), len(tags2), 1),
\* 0 <= t <= 1; s = 1.0 with insight and metric both tagged growth gives
\* causality with weight exactly 1.0.
C5_WeightFormula ==
    Returned =>
        LET n == Cardinality(SharedArgTags)
            d == IF Len(arg1.tags) = 0 /\ Len(arg2.tags) = 0 THEN 1
                 ELSE IF Len(arg1.tags) >= Len(arg2.tags) THEN Len(arg1.tags)
                 ELSE Len(arg2.tags)
            m10 == CASE ret[1].relationship_type = "causality" -> 13
                     [] ret[1].relationship_type = "influence" -> 12
                     [] ret[1].relationship_type = "relevance" -> 10
            \* ten times s * m, and twice d times base * (1 + t/2)
            sm10 == argSim * m10
            base10 == IF sm10 >= 10 * One THEN 10 * One ELSE sm10
            boosted == base10 * (2 * d + n)
        IN  /\ 0 <= n /\ n <= d
            /\ IF boosted >= 10 * One * 2 * d
               THEN ret[1].weight = One
               ELSE ret[1].weight * 10 * 2 * d = boosted
            /\ (/\ argSim = One
                /\ TypePair = {"insight", "metric"}
                /\ arg1.tags = <<"growth">>
                /\ arg2.tags = <<"growth">>)
               => ret[1].relationship_type = "causality" /\ ret[1].weight = One

\* a list with a repeated tag: t = 1/2, and the boost 1.25 stays under the cap
C5_Witness ==
    /\ Returned
    /\ arg1.tags = <<"api", "api">>
    /\ arg2.tags = <<"api">>
    /\ argSim = R(32, 100)
    /\ ret[1].relationship_type = "relevance"
    /\ ret[1].weight = R(40, 100)

\* an edge is made of the pair for some non-negative threshold: the similarity
\* is above it and the weight is positive; the similarity is in (0, 1]
ProducesEdge ==
    /\ Returned
    /\ argSim > 0
    /\ argSim <= One
    /\ ret[1].weight > 0

PlainPair == ret[1].relationship_type = "relevance" /\ SharedArgTags = {}

\* C25 as stated: for every edge produced with a non-negative threshold and
\* similarity in (0, 1], weight >= semantic_similarity, and weight =
\* semantic_similarity exactly when the type is relevance and no tag is shared.
C25_WeightEqualsSimilarityOnlyWhenPlain ==
    ProducesEdge =>
        /\ ret[1].weight >= argSim
        /\ ret[1].weight = argSim <=> PlainPair

\* C25, amended: weight >= semantic_similarity, and weight =
\* semantic_similarity exactly when the type is relevance and no tag is
\* shared, or the similarity is 1, where the cap at 1.0 holds the weight.
C25_WeightAtLeastSimilarity ==
    ProducesEdge =>
        /\ ret[1].weight >= argSim
        /\ ret[1].weight = argSim <=> (PlainPair \/ argSim = One)

\* an event and a metric of similarity 1: influence, and the weight is capped
\* at the similarity
C25_Witness ==
    /\ ProducesEdge
    /\ argSim = One
    /\ ret[1].relationship_type = "influence"
    /\ ret[1].weight = argSim

\* raised by the multiplier and by the boost, under the cap
C25_WitnessRaised ==
    /\ ProducesEdge
    /\ argSim = R(28, 100)
    /\ ret[1].relationship_type = "causality"
    /\ ret[1].weight > Times(argSim, R(13, 10))
    /\ ret[1].weight < One

(***************************************************************************)
(* Claims about the query clients (SpecQuery)                              *)
(***************************************************************************)
Backends == {"neo4j", "simple"}

Answered(backend, op) == qcall.op = op /\ qres[backend] # <<>>

Answer(backend) == qres[backend][1]

StoredNode(id) == CHOOSE n \in store.nodes : n.id = id

NonExpansion(rows) == SelectSeq(rows, LAMBDA row : ~row.is_expansion)

ConfidenceDescending(rows) ==
    \A i, j \in DOMAIN rows : i < j => rows[i].confidence >= rows[j].confidence

\* C7: in both backends and for every combination of arguments, every edge that
\* get_filtered_graph returns has its source_id and its target_id among the ids
\* of the nodes of the same result, and a weight of at least min_weight.
C7_FilteredEdgesClosed ==
    \A backend \in Backends :
        Answered(backend, "get_filtered_graph") =>
            \A e \in Answer(backend).edges :
                /\ e.source_id \in SeqIds(Answer(backend).nodes)
                /\ e.target_id \in SeqIds(Answer(backend).nodes)
                /\ e.weight >= qcall.args.min_weight

\* both backends returned an edge, while the store holds an edge that is heavy
\* enough but leaves the returned nodes, and an edge between returned nodes that
\* is too light
C7_Witness ==
    /\ \A backend \in Backends :
          /\ Answered(backend, "get_filtered_graph")
          /\ Answer(backend).edges # {}
    /\ \E e \in store.edges :
          /\ e.weight >= qcall.args.min_weight
          /\ e.source_id \in SeqIds(Answer("neo4j").nodes)
          /\ e.target_id \notin SeqIds(Answer("neo4j").nodes)
    /\ \E e \in store.edges :
          /\ e.weight < qcall.args.min_weight
          /\ e.source_id \in SeqIds(Answer("simple").nodes)
          /\ e.target_id \in SeqIds(Answer("simple").nodes)

\* every predicate that the call supplies: type, source, confidence, tags
SatisfiesAllPredicates(n, c) ==
    /\ c.node_types # <<>> => n.type \in Range(c.node_types)
    /\ c.sources # <<>> => n.source \in Range(c.sources)
    /\ n.confidence >= c.min_confidence
    /\ c.tags # <<>> => Range(n.tags) \cap Range(c.tags) # {}

\* C8: get_filtered_graph returns only nodes that satisfy every supplied
\* predicate at once (type, source, confidence, at least one tag in tags), in
\* descending order of confidence and at most limit of them, and what the SQLite
\* backend returns is a result of the Neo4j backend for the same stored graph
\* and arguments, also when tags is supplied.
C8_SamePredicatesInBothBackends ==
    /\ \A backend \in Backends :
          Answered(backend, "get_filtered_graph") =>
              /\ \A i \in DOMAIN Answer(backend).nodes :
                    SatisfiesAllPredicates(StoredNode(Answer(backend).nodes[i].id), qcall.args)
              /\ ConfidenceDescending(Answer(backend).nodes)
              /\ Len(Answer(backend).nodes) <= qcall.args.limit
    /\ Answered("simple", "get_filtered_graph") =>
          Answer("simple") \in Neo4j_get_filtered_graph(store, qcall.args)

\* a node matches when its content, its source or one of its tags contains the
\* query, whatever the case of the letters
MatchesQuery(n, query) ==
    \/ CONTAINS(toLower(n.content), toLower(query))
    \/ CONTAINS(toLower(n.source), toLower(query))
    \/ \E tag \in Range(n.tags) : CONTAINS(toLower(tag), toLower(query))

Matching(query) == {n \in store.nodes : MatchesQuery(n, query)}

\* C9: search_nodes(query, limit) returns only stored nodes whose content, source
\* or any tag contains query case-insensitively: all of them when they are at
\* most limit, and otherwise limit of them with the highest confidence, in
\* descending order of confidence, in both backends, nodes that match only
\* through a tag included.
C9_SearchMatchesContentSourceOrTag ==
    \A backend \in Backends :
        Answered(backend, "search_nodes") =>
            LET found == Answer(backend).nodes
            IN  /\ SeqIds(found) \subseteq {n.id : n \in Matching(qcall.args.query)}
                /\ Len(found) = Min(qcall.args.limit, Cardinality(Matching(qcall.args.query)))
                /\ Cardinality(SeqIds(found)) = Len(found)
                /\ ConfidenceDescending(found)
                /\ \A n \in Matching(qcall.args.query) :
                      n.id \notin SeqIds(found) =>
                          \A i \in DOMAIN found : found[i].confidence >= n.confidence

\* the relevance that the store holds for the node and the audience of the call
StoredRelevance(id) ==
    dict_get(json_loads(StoredNode(id).audience_relevance_json), qcall.args.audience, 0)

RelevanceFloor(backend) ==
    IF backend = "neo4j" THEN Neo4jRelevanceFloor ELSE SimpleRelevanceFloor

\* C10: get_audience_focused_graph(audience, limit) returns at most limit nodes
\* that are not marked is_expansion, each with a stored relevance for the
\* audience strictly above 0.1 in the Neo4j backend and strictly above 0.0 in
\* the SQLite backend; the Neo4j boost of an insight (x1.2) changes the score of
\* a node that passed the test and admits no node.
C10_FocusedNodesAboveFloor ==
    \A backend \in Backends :
        Answered(backend, "get_audience_focused_graph") =>
            LET focused == NonExpansion(Answer(backend).nodes)
            IN  /\ Len(focused) <= qcall.args.limit
                /\ \A i \in DOMAIN focused :
                      /\ StoredRelevance(focused[i].id) > RelevanceFloor(backend)
                      /\ focused[i].relevance_score =
                            IF backend = "neo4j" /\ focused[i].type = "insight"
                            THEN Times(StoredRelevance(focused[i].id), InsightBoost)
                            ELSE StoredRelevance(focused[i].id)

\* the Neo4j backend returned a boosted insight and an expansion node, and left
\* out of the focused nodes an insight whose stored relevance is at most 0.1 but
\* whose boosted relevance is above it; the SQLite backend returned a node whose
\* stored relevance is at most 0.1
C10_Witness ==
    /\ \A backend \in Backends : Answered(backend, "get_audience_focused_graph")
    /\ LET rows == Answer("neo4j").nodes
           focused == NonExpansion(rows)
       IN  /\ Len(rows) > Len(focused)
           /\ \E i \in DOMAIN focused : focused[i].type = "insight"
           /\ \E n \in store.nodes :
                 /\ n.type = "insight"
                 /\ StoredRelevance(n.id) <= Neo4jRelevanceFloor
                 /\ Times(StoredRelevance(n.id), InsightBoost) > Neo4jRelevanceFloor
                 /\ n.id \notin SeqIds(focused)
    /\ \E i \in DOMAIN Answer("simple").nodes :
          StoredRelevance(Answer("simple").nodes[i].id) <= Neo4jRelevanceFloor

Expansion(rows) == SelectSeq(rows, LAMBDA row : row.is_expansion)

\* the stored edges of weight >= 0.4 between the node and a focused node, in
\* either direction
StrongLinks(id, focused_ids) ==
    {e \in store.edges :
        /\ e.weight >= R(4, 10)
        /\ \/ e.source_id = id /\ e.target_id \in focused_ids
           \/ e.target_id = id /\ e.source_id \in focused_ids}

\* (connection count, average weight) of x is at least that of y
RanksAtLeast(x, y, focused_ids) ==
    LET lx == StrongLinks(x, focused_ids)
        ly == StrongLinks(y, focused_ids)
    IN  \/ Cardinality(lx) > Cardinality(ly)
        \/ /\ Cardinality(lx) = Cardinality(ly)
           /\ SumWeights(lx) * Cardinality(ly) >= SumWeights(ly) * Cardinality(lx)

\* C11: the Neo4j get_audience_focused_graph adds at most 10 expansion nodes;
\* each is outside the focused set, tied to a focused node by an edge of weight
\* >= 0.4 and marked is_expansion, and no connected node left out ranks above a
\* chosen one by (connection count, average weight); so the result holds at
\* most limit + 10 nodes and no node id twice.
C11_ExpansionTopTen ==
    Answered("neo4j", "get_audience_focused_graph") =>
        LET rows == Answer("neo4j").nodes
            focused_ids == SeqIds(NonExpansion(rows))
            added == Expansion(rows)
        IN  /\ Len(added) <= 10
            /\ \A i \in DOMAIN added :
                  /\ added[i].id \notin focused_ids
                  /\ StrongLinks(added[i].id, focused_ids) # {}
                  /\ \A n \in store.nodes :
                        (n.id \notin SeqIds(rows) /\ StrongLinks(n.id, focused_ids) # {})
                            => RanksAtLeast(added[i].id, n.id, focused_ids)
            /\ \A n \in store.nodes :
                  (n.id \notin SeqIds(rows) /\ StrongLinks(n.id, focused_ids) # {})
                      => Len(added) = 10
            /\ Len(rows) <= qcall.args.limit + 10
            /\ Cardinality(SeqIds(rows)) = Len(rows)

\* the Neo4j backend added ten expansion nodes and left out a connected node,
\* and the node it added first has more connections but a lower average weight
\* than one it added later
C11_Witness ==
    /\ Answered("neo4j", "get_audience_focused_graph")
    /\ LET rows == Answer("neo4j").nodes
           focused_ids == SeqIds(NonExpansion(rows))
           added == Expansion(rows)
       IN  /\ Len(added) = 10
           /\ \E n \in store.nodes :
                 n.id \notin SeqIds(rows) /\ StrongLinks(n.id, focused_ids) # {}
           /\ \E i \in DOMAIN added :
                 /\ Cardinality(StrongLinks(added[1].id, focused_ids))
                       > Cardinality(StrongLinks(added[i].id, focused_ids))
                 /\ \E e1 \in StrongLinks(added[1].id, focused_ids) :
                       \A ei \in StrongLinks(added[i].id, focused_ids) : e1.weight < ei.weight

Malformed(n) == n.audience_relevance_json.kind # "object"

\* the node's stored JSON is a mapping whose relevance for the audience asked
\* for is above the backend's floor
Qualifies(n, backend) ==
    /\ ~Malformed(n)
    /\ dict_get(n.audience_relevance_json.members, qcall.args.audience, 0)
          > RelevanceFloor(backend)

\* C19: in get_audience_focused_graph of both backends a node whose stored
\* audience_relevance_json is malformed (not parseable, or not a mapping) is
\* skipped: the call does not raise, the node is not returned as a focused
\* node, and while fewer than limit focused nodes are returned every other
\* node that qualifies for the audience is among them.
C19_MalformedNodeIsSkipped ==
    \A backend \in Backends :
        (/\ Answered(backend, "get_audience_focused_graph")
         /\ \E n \in store.nodes : Malformed(n)) =>
            LET focused == NonExpansion(Answer(backend).nodes)
            IN  /\ ~Answer(backend).raised
                /\ \A i \in DOMAIN focused : ~Malformed(StoredNode(focused[i].id))
                /\ Len(focused) < qcall.args.limit =>
                      \A n \in store.nodes :
                          Qualifies(n, backend) => n.id \in SeqIds(focused)

\* the counts of the rows, added up
RECURSIVE SumCounts(_)
SumCounts(rows) ==
    IF rows = <<>> THEN 0 ELSE Head(rows).count + SumCounts(Tail(rows))

CountDescending(rows) ==
    \A i, j \in DOMAIN rows : i < j => rows[i].count >= rows[j].count

NodesOfSource(v) == {n \in store.nodes : "source" \in DOMAIN n /\ n.source = v}

StoredSources == {n.source : n \in {m \in store.nodes : "source" \in DOMAIN m}}

Typed(n) == "type" \in DOMAIN n

NodesOfType(row) ==
    IF row.value = <<>> THEN {n \in store.nodes : ~Typed(n)}
    ELSE {n \in store.nodes : Typed(n) /\ n.type = row.value[1]}

\* the counts an overview reports, top_sources and the sum of node_types aside
OverviewCounts(o) ==
    /\ o.total_nodes = Cardinality(store.nodes)
    /\ o.total_relationships = Cardinality(store.edges)
    /\ CountDescending(o.node_types)
    /\ \A i \in DOMAIN o.node_types :
          o.node_types[i].count = Cardinality(NodesOfType(o.node_types[i]))
    /\ o.high_confidence_nodes =
          Cardinality({n \in store.nodes : n.confidence * 10 >= 8 * Unit})

\* at most 10 rows in descending count order, each a stored source with its
\* number of nodes, no source counted twice
TopSourcesRows(o) ==
    /\ Len(o.top_sources) <= 10
    /\ CountDescending(o.top_sources)
    /\ \A i \in DOMAIN o.top_sources :
          /\ o.top_sources[i].value # <<>>
          /\ o.top_sources[i].value[1] \in StoredSources
          /\ o.top_sources[i].count =
                Cardinality(NodesOfSource(o.top_sources[i].value[1]))
    /\ \A i, j \in DOMAIN o.top_sources :
          o.top_sources[i].value = o.top_sources[j].value => i = j

BothOverviews ==
    \A backend \in Backends : Answered(backend, "get_graph_overview")

\* C21 as stated: each overview reports the numbers of stored nodes and
\* edges, node_types counts that sum to the number of typed nodes, at most 10
\* top_sources in descending count order that omit nodes without a source, and
\* the number of nodes of confidence >= 0.8; both backends report the same
\* values (rows of equal count taken in any order).
C21_OverviewsAgree ==
    /\ \A backend \in Backends :
          Answered(backend, "get_graph_overview") =>
              /\ OverviewCounts(Answer(backend))
              /\ SumCounts(Answer(backend).node_types)
                    = Cardinality({n \in store.nodes : Typed(n)})
              /\ TopSourcesRows(Answer(backend))
    /\ BothOverviews =>
          /\ Range(Answer("neo4j").node_types) = Range(Answer("simple").node_types)
          /\ Range(Answer("neo4j").top_sources) = Range(Answer("simple").top_sources)
          /\ Answer("neo4j").high_confidence_nodes = Answer("simple").high_confidence_nodes
          /\ Answer("neo4j").total_nodes = Answer("simple").total_nodes
          /\ Answer("neo4j").total_relationships = Answer("simple").total_relationships

\* the sources a top_sources list leaves out have no more nodes than any it keeps
KeepsTheLargest(o) ==
    /\ Len(o.top_sources) = Min(10, Cardinality(StoredSources))
    /\ \A v \in StoredSources \ {o.top_sources[i].value[1] : i \in DOMAIN o.top_sources} :
          \A i \in DOMAIN o.top_sources :
              Cardinality(NodesOfSource(v)) <= o.top_sources[i].count

\* C21, amended: as stated, except that node_types counts sum to the number
\* of all nodes (untyped nodes are counted in a row of type null), and that the
\* two backends agree on top_sources only up to the choice among sources of
\* equal count at the limit of 10: each list keeps 10 sources (all of them
\* when there are fewer), and no source left out has more nodes than one kept.
C21_OverviewsAgreeUpToTies ==
    /\ \A backend \in Backends :
          Answered(backend, "get_graph_overview") =>
              /\ OverviewCounts(Answer(backend))
              /\ SumCounts(Answer(backend).node_types) = Cardinality(store.nodes)
              /\ TopSourcesRows(Answer(backend))
              /\ KeepsTheLargest(Answer(backend))
    /\ BothOverviews =>
          /\ Range(Answer("neo4j").node_types) = Range(Answer("simple").node_types)
          /\ Cardinality(StoredSources) <= 10 =>
                Range(Answer("neo4j").top_sources) = Range(Answer("simple").top_sources)
          /\ Answer("neo4j").high_confidence_nodes = Answer("simple").high_confidence_nodes
          /\ Answer("neo4j").total_nodes = Answer("simple").total_nodes
          /\ Answer("neo4j").total_relationships = Answer("simple").total_relationships

\* both overviews of a graph with 11 sources, a node without source and nodes
\* of confidence exactly 0.8 and just below it
C21_Witness ==
    /\ BothOverviews
    /\ Cardinality(StoredSources) > 10
    /\ \E n \in store.nodes : "source" \notin DOMAIN n
    /\ \E n \in store.nodes : ~Typed(n)
    /\ \E n \in store.nodes : n.confidence * 10 = 8 * Unit
    /\ \E n \in store.nodes : n.confidence * 10 < 8 * Unit
    /\ Len(Answer("neo4j").top_sources) = 10
    /\ Answer("neo4j").top_sources # Answer("simple").top_sources

\* the edge rows of an audience graph lie between its nodes, at or above the
\* floor, one row for a stored edge
AudienceEdgesWithin(answer, floor) ==
    /\ \A row \in answer.edges :
          /\ row.source_id \in {answer.nodes[i].id : i \in DOMAIN answer.nodes}
          /\ row.target_id \in {answer.nodes[i].id : i \in DOMAIN answer.nodes}
          /\ row.weight >= floor
    /\ \A row, other \in answer.edges : row.eid = other.eid => row = other

\* C30: get_audience_focused_graph, in both backends, returns only edges whose
\* two endpoints are both in its returned node list and whose weight is at
\* least the backend's floor (0.35 in Neo4j, 0.3 in SQLite), lists each stored
\* edge at most once, and in Neo4j returns at most 100 edges.
C30_AudienceEdgesWithinTheGraph ==
    /\ Answered("neo4j", "get_audience_focused_graph") =>
          /\ AudienceEdgesWithin(Answer("neo4j"), R(35, 100))
          /\ Cardinality(Answer("neo4j").edges) <= 100
    /\ Answered("simple", "get_audience_focused_graph") =>
          AudienceEdgesWithin(Answer("simple"), R(3, 10))

\* the same without the demand of one row for a stored edge
AudienceEdgesBetweenNodes ==
    \A backend \in Backends :
        Answered(backend, "get_audience_focused_graph") =>
            \A row \in Answer(backend).edges :
                /\ row.source_id \in {Answer(backend).nodes[i].id :
                                        i \in DOMAIN Answer(backend).nodes}
                /\ row.target_id \in {Answer(backend).nodes[i].id :
                                        i \in DOMAIN Answer(backend).nodes}
                /\ row.weight >= (IF backend = "neo4j" THEN R(35, 100) ELSE R(3, 10))

\* the SQLite client alone
SimpleAudienceEdgesWithin ==
    Answered("simple", "get_audience_focused_graph") =>
        AudienceEdgesWithin(Answer("simple"), R(3, 10))

(***************************************************************************)
(* Claims about graph_api (SpecApi)                                        *)
(***************************************************************************)
\* C12: when sending to one subscriber fails during broadcast, that subscriber
\* is removed from active_connections, every other connected subscriber still
\* receives the message, and broadcast does not raise, so the HTTP request or
\* the websocket handler that triggered it finishes normally.
C12_BroadcastSurvivesFailingSubscriber ==
    (/\ response.broadcast_called
     /\ Range(response.connections_before) \cap response.failing_before # {})
    =>  /\ ~response.broadcast_raised
        /\ response.status \in {"200", "open"}
        /\ Range(response.connections_before) \ response.failing_before \subseteq delivered
        /\ Range(active_connections)
              = Range(response.connections_before) \ response.failing_before

WebSocketMessages == {"node_selection", "graph_update"}

\* the subscribers whose peer was there when the handler began
HealthyBefore == Range(response.connections_before) \ response.failing_before

\* C26: a send failure to one subscriber never removes a healthy subscriber:
\* after a broadcast triggered by a node_selection or graph_update message in
\* which the send to some other subscriber fails, the sender's websocket and
\* every other healthy websocket are still in active_connections.
C26_HealthySubscribersStay ==
    (/\ response.op \in WebSocketMessages
     /\ response.sender \in HealthyBefore
     /\ Range(response.connections_before) \cap response.failing_before # {})
    => HealthyBefore \subseteq Range(active_connections)

BroadcastEnded == bcast.state \in {"returned", "raised"}

Received(websocket) == Cardinality({k \in DOMAIN bcast.got : bcast.got[k] = websocket})

\* C27: every subscriber that is in active_connections from the start to the
\* end of a broadcast receives that broadcast's message exactly once, under
\* every interleaving of the awaited sends with connects and disconnects of
\* other subscribers and with the removals the broadcast itself makes.
C27_EverySubscriberReceivesOnce ==
    BroadcastEnded => \A websocket \in bcast.through : Received(websocket) = 1

\* the same of the broadcasts in which no send failed: the for loop came to
\* its end
ReturnedBroadcastReachedAll ==
    bcast.state = "returned" => \A websocket \in bcast.through : Received(websocket) = 1

NoDuplicates(list) == \A a, b \in DOMAIN list : a # b => list[a] # list[b]

\* C28: active_connections never holds a websocket twice; a websocket is in it
\* only between its accept in connect and the exit of its handler, so once
\* the handler has exited the websocket is not in it; and disconnect of a
\* websocket that is not registered leaves the list as it is.
C28_RegisteredOnlyWhileServed ==
    /\ NoDuplicates(active_connections)
    /\ \A websocket \in Range(active_connections) : handlers[websocket] = "running"
    /\ \A websocket \in WebSockets \ Range(active_connections) :
          disconnect(active_connections, websocket) = active_connections

\* one handler has exited after its websocket was registered and received a
\* broadcast, the other is still served and registered
C28_Witness ==
    /\ BroadcastEnded
    /\ \E websocket \in WebSockets :
          /\ handlers[websocket] = "exited"
          /\ Received(websocket) = 1
    /\ \E websocket \in WebSockets :
          /\ handlers[websocket] = "running"
          /\ websocket \in Range(active_connections)

\* a served handler whose websocket a broadcast has removed
C28_WitnessRemovedWhileServed ==
    \E websocket \in WebSockets :
        /\ handlers[websocket] = "running"
        /\ websocket \in failing
        /\ websocket \notin Range(active_connections)

SameAsFirstLoad(backend) ==
    loads[backend].first # <<>> =>
        /\ Len(databases[backend].nodes) = loads[backend].first[1].nodes
        /\ Len(databases[backend].edges) = loads[backend].first[1].edges

\* C29: loading the same persisted graph into a backend more than once does
\* not duplicate it: after any number of API startups, initialize_neo4j_graph
\* runs and initialize_simple_graph runs against the same database, the
\* stored node count and the stored edge count are those after the first load.
C29_ReloadDoesNotDuplicate ==
    SameAsFirstLoad("neo4j") /\ SameAsFirstLoad("simple")

ApiPaths ==
    {"/api/overview", "/api/search", "/api/graph/filtered", "/api/graph/audience",
     "/api/node/neighbors", "/api/analytics", "/api/sources", "/api/node-types",
     "/api/export/graph"}

\* C20: for every /api endpoint, a request made while the client is not
\* initialized is answered with status 500 without the backend being called,
\* and a request whose backend operation fails is answered with status 500,
\* never with a success response.
C20_FailuresBecomeServerErrors ==
    response.op \in ApiPaths =>
        /\ neo4j_client = NoValue =>
              response.status = "500" /\ ~response.backend_called
        /\ (response.backend_called /\ ~response.backend_ok_before) =>
              response.status = "500"

(***************************************************************************)
(* Claims about the extractor (SpecExtract)                                *)
(***************************************************************************)
Extracted == extracted[1]

\* the words of the object's _file_source ('unknown' when it has none)
FileSourceOf(data) == IF data.file_source = <<>> THEN <<"unknown">> ELSE data.file_source[1]

\* the rules in their fixed order: DAU, feature, revenue, support, market,
\* social, team
RuleOrder == <<"dau", "feature", "revenue", "support", "market", "social", "team">>

Recognized(data) == \E k \in DOMAIN Kinds : Kinds[k] \in Range(FileSourceOf(data))

\* the rule of the first kind, in the fixed order, that the _file_source matches
FirstRule(data) ==
    RuleOrder[CHOOSE k \in DOMAIN Kinds :
                 /\ Kinds[k] \in Range(FileSourceOf(data))
                 /\ \A j \in DOMAIN Kinds : Kinds[j] \in Range(FileSourceOf(data)) => k <= j]

\* how many points the object contributes
PointCount(data) ==
    IF ~Recognized(data) THEN 0
    ELSE CASE FirstRule(data) = "dau" -> 1 + Len(data.items)
           [] FirstRule(data) \in {"feature", "market"} -> Len(data.items)
           [] OTHER -> 1

RECURSIVE PointsBefore(_, _)
PointsBefore(objects, k) ==
    IF k <= 1 THEN 0 ELSE PointsBefore(objects, k - 1) + PointCount(objects[k - 1])

\* C13: extract_data_points returns the points of the source objects in input
\* order (all points of the k-th object before any point of the (k+1)-th), one
\* rule per object, that of the first matching kind in the fixed order, and an
\* object whose _file_source matches no kind contributes no point and no error.
C13_PointsInInputOrder ==
    /\ (extracted # <<>> /\ ~Extracted.raised) =>
          /\ Len(Extracted.points) = PointsBefore(data_list, Len(data_list) + 1)
          /\ \A k \in DOMAIN data_list :
                \A i \in 1..PointCount(data_list[k]) :
                    LET point == Extracted.points[PointsBefore(data_list, k) + i]
                    IN  /\ point.content[1] = FirstRule(data_list[k])
                        /\ point.content[2] = data_list[k].name
    /\ (extracted # <<>> /\ \A k \in DOMAIN data_list : ~Recognized(data_list[k])) =>
          ~Extracted.raised /\ Extracted.points = <<>>

\* an object of two kinds, after an unrecognized object, gave the points of the
\* DAU rule only
C13_Witness ==
    /\ extracted # <<>>
    /\ ~Extracted.raised
    /\ Len(data_list) = 2
    /\ ~Recognized(data_list[1])
    /\ {"daily_active_users", "feature_adoption"} \subseteq Range(FileSourceOf(data_list[2]))
    /\ Len(Extracted.points) = 2
    /\ \A i \in DOMAIN Extracted.points : Extracted.points[i].content[1] = "dau"

(***************************************************************************)
(* Claims about save_graph                                                 *)
(***************************************************************************)
RECURSIVE Total(_)
\* the sum of the counts of a summary section
Total(counts) ==
    IF DOMAIN counts = {} THEN 0
    ELSE LET k == CHOOSE key \in DOMAIN counts : TRUE
         IN  counts[k] + Total([key \in DOMAIN counts \ {k} |-> counts[key]])

SummaryFile == files[4]

SummaryWritten == saved.called /\ SummaryFile.written = "complete"

\* C15: the summary written by save_graph agrees with the builder it was
\* called on (no builder operation runs between the call and the state
\* observed): the per-type and per-source node counts each sum to
\* total_nodes, which is the number of nodes; the per-relationship-type counts
\* sum to total_edges, which is the number of edges; and audience_coverage[a]
\* is the number of nodes whose audience_relevance[a] is strictly above 0.3,
\* for each of the four audiences.
C15_SummaryConsistent ==
    SummaryWritten =>
        LET summary == SummaryFile.document[1]
        IN  /\ summary.total_nodes = Len(nodes)
            /\ Total(summary.node_types) = summary.total_nodes
            /\ Total(summary.source_distribution) = summary.total_nodes
            /\ summary.total_edges = Len(edges)
            /\ Total(summary.relationship_types) = summary.total_edges
            /\ DOMAIN summary.audience_coverage = Audiences
            /\ \A a \in Audiences :
                  summary.audience_coverage[a] =
                      Cardinality({i \in DOMAIN nodes :
                                      nodes[i].audience_relevance[a] * 10 > 3 * Unit})

\* a summary was written for a builder with an edge, a node whose investor
\* relevance is exactly 0.3 and another whose investor relevance is above it
C15_Witness ==
    /\ SummaryWritten
    /\ Len(edges) >= 1
    /\ \E i \in DOMAIN nodes : nodes[i].audience_relevance["investors"] * 10 = 3 * Unit
    /\ \E i \in DOMAIN nodes : nodes[i].audience_relevance["investors"] * 10 > 3 * Unit
    /\ Cardinality({nodes[i].source : i \in DOMAIN nodes}) >= 2

NodesFile == files[1]

EdgesFile == files[2]

\* this step is a call of save_graph that wrote the nodes and edges JSON, made
\* on a builder whose previous call had written them too
SavedAgain ==
    /\ saved.called
    /\ NodesFile.written = "complete"
    /\ EdgesFile.written = "complete"
    /\ saved' # saved \/ files' # files
    /\ saved'.called
    /\ saved'.failed_at \notin {1, 2}
    /\ nodes' = nodes
    /\ edges' = edges

\* C16: calling save_graph twice on the same builder state (the same nodes and
\* edges in the same order) writes the same nodes JSON document and the same
\* edges JSON document both times.
C16_SecondSaveWritesSameDocuments ==
    [][SavedAgain => /\ NodesFile' = NodesFile
                     /\ EdgesFile' = EdgesFile]_vars

\* this step is a call of save_graph
SaveStep == saved' # saved \/ files' # files

\* C17: save_graph writes nodes JSON, edges JSON, edge list and summary in
\* that order; a call leaves each artifact either completely written or as it
\* was before the call; when writing the k-th artifact fails, the artifacts
\* before it are written and stay, and the artifacts after it are as they
\* were before the call.
C17_EachArtifactAllOrNothing ==
    [][SaveStep =>
          /\ \A k \in DOMAIN Artifacts :
                \/ files'[k] = files[k]
                \/ files'[k] = CompleteFile(DocumentOf(Artifacts[k]))
          /\ \A k \in DOMAIN Artifacts :
                saved'.failed_at # 0 =>
                    /\ k < saved'.failed_at =>
                          files'[k] = CompleteFile(DocumentOf(Artifacts[k]))
                    /\ k > saved'.failed_at => files'[k] = files[k]]_vars

(***************************************************************************)
(* Claims about the consumers of the persisted graph                       *)
(***************************************************************************)
\* C18: no component changes a node or an edge after it has been created:
\* save_graph leaves every node and edge of the builder as it was, and the
\* EnhancedGraphVisualizer never changes a field of an edge record it has
\* loaded, in particular its relationship_type.
C18_NothingMutatedAfterCreation ==
    [][/\ SaveStep => nodes' = nodes /\ edges' = edges
       /\ edges_data'.loaded => edges_data'.edges = edges_data'.read]_vars

(***************************************************************************)
(* Claims about the build run                                              *)
(***************************************************************************)
\* the rules that subscript top-level fields of the object, and those that
\* subscript fields of its items
FixedMetricRules == {"dau", "revenue", "support", "social", "team"}

ItemRules == {"dau", "feature", "market"}

\* the object is recognized and lacks a field its rule subscripts
LacksRequiredField(data) ==
    /\ Recognized(data)
    /\ \/ FirstRule(data) \in FixedMetricRules /\ ~data.required
       \/ FirstRule(data) \in ItemRules /\ \E j \in DOMAIN data.items : ~data.items[j]

SomeObjectLacksField == \E i \in DOMAIN data_list : LacksRequiredField(data_list[i])

BuilderUntouched ==
    /\ nodes = <<>>
    /\ edges = <<>>
    /\ nxNodes = EmptyFunction
    /\ nxEdges = EmptyFunction

NothingSaved ==
    /\ ~saved.called
    /\ \A k \in DOMAIN Artifacts : files[k] = AbsentFile

\* C14: when a recognized source object lacks a required field,
\* extract_data_points raises and returns no points, not even those of the
\* objects before it; and the build run of main then creates no node and no
\* edge, never calls save_graph, and ends by printing the failure.
C14_MalformedSourceEndsTheRun ==
    SomeObjectLacksField =>
        /\ extracted # <<>> => extracted[1].raised /\ extracted[1].points = <<>>
        /\ BuilderUntouched
        /\ NothingSaved
        /\ run \in Ended => run = "error"

\* a run over two objects has ended: the first object alone yields points, the
\* second lacks a required field
C14_Witness ==
    /\ run = "error"
    /\ Len(data_list) = 2
    /\ ~LacksRequiredField(data_list[1])
    /\ extract_data_points(<<data_list[1]>>).points # <<>>
    /\ LacksRequiredField(data_list[2])
    /\ BuilderUntouched

MainStarted == run # "not_run"

NodesCreated == nodes # <<>> \/ last.op # "__init__"

EdgesCreated == last.op = "create_semantic_edges"

\* C23: in main the stages run in the order load, extract, create_graph_nodes,
\* create_semantic_edges(0.25), save_graph: nodes are created only from the
\* points of a completed extraction of loaded data, edges only once the nodes
\* are there, save_graph is reached only after create_semantic_edges(0.25) has
\* completed; and a run that loads no data or extracts no points ends with no
\* node created and no artifact written.
C23_StagesInOrder ==
    MainStarted =>
        /\ NodesCreated =>
              /\ data_list # <<>>
              /\ extracted # <<>>
              /\ ~extracted[1].raised
              /\ extracted[1].points # <<>>
              /\ Len(nodes) = Len(extracted[1].points)
        /\ EdgesCreated => Len(nodes) > 0 /\ last.args = <<R(25, 100)>> /\ last.builds = 1
        /\ edges # <<>> => EdgesCreated
        /\ saved.called => EdgesCreated
        /\ (\E k \in DOMAIN Artifacts : files[k] # AbsentFile) => saved.called
        /\ run = "loaded" => extracted = <<>>
        /\ run = "complete" => saved.called /\ ~saved.raised
        /\ run \in {"no_data", "no_points"} => BuilderUntouched /\ NothingSaved
        /\ run = "no_data" => extracted = <<>>

\* a run that went through every stage and wrote its artifacts, with edges
C23_Witness ==
    /\ run = "complete"
    /\ Len(nodes) >= 2
    /\ edges # <<>>
    /\ \A k \in DOMAIN Artifacts : files[k].written = "complete"

\* a run that ended because the loaded objects yield no point
C23_WitnessNoPoints ==
    /\ run = "no_points"
    /\ data_list # <<>>

(***************************************************************************)
(* Claims about calculate_audience_relevance                               *)
(***************************************************************************)
IsRelevanceMapping(scores) ==
    /\ DOMAIN scores = {"investors", "customers", "internal_team", "developer_community"}
    /\ \A audience \in DOMAIN scores : scores[audience] >= 0 /\ scores[audience] <= Unit

\* C22: for every content and every tag list calculate_audience_relevance
\* returns a mapping whose keys are exactly the four audiences and whose
\* scores all lie between 0 and 1.
C22_RelevanceIsAMappingIntoUnitInterval ==
    ret # <<>> => IsRelevanceMapping(ret[1])

\* all seven investor keywords and more than five investor tags: both terms
\* of the investors' score are at their caps
C22_Witness ==
    /\ ret # <<>>
    /\ arg1.content = "c6"
    /\ Len(arg1.tags) > 5
    /\ ret[1]["investors"] = Unit
    /\ ret[1]["customers"] = 0
====
